---- MODULE Spec2Model ----
(***************************************************************************)
(* Model of the RoadFighter server: the payment split helper, the JWT      *)
(* authentication middleware, the session routes, the token routes and the *)
(* token gate, over the Prisma tables and the Redis cache they share.      *)
(*                                                                         *)
(* Money is counted in whole cents.  A JavaScript number that stands for   *)
(* an amount of c cents is the IEEE-754 double nearest to c/100; the model *)
(* keeps c and, where the code's result depends on it, the side on which   *)
(* that double lies of c/100.                                              *)
(***************************************************************************)
EXTENDS Integers, Sequences, FiniteSets, TLC

\* an absent string and an absent object (null / undefined)
Null == "null"
NoRec == [none |-> TRUE]

(***************************************************************************)
(* Bounds of the model.                                                    *)
(***************************************************************************)
\* largest total handed to calculatePaymentSplit, in cents
MaxTotalCents == 10000
\* number of HTTP requests in one behaviour
MaxReqs == 2
\* ticks of the clock in one UTC day, and the last tick of a behaviour
DayLen == 2
MaxClock == 4
\* largest requiredTokens a route asks of requireTokens
MaxRequired == 1
\* most runs of startServer
MaxBoots == 2
\* most events handled for one socket
MaxEvents == 3
\* largest number of attempts handed to retry
MaxAttempts == 3

(***************************************************************************)
(* Program constants.                                                      *)
(***************************************************************************)
\* PAYMENT_CONFIG.MIN_ENTRY_FEE and MAX_ENTRY_FEE, in cents
MIN_ENTRY_FEE == 100
MAX_ENTRY_FEE == 10000
\* TOKEN_CONFIG.DAILY_TOKEN_COUNT
DAILY_TOKEN_COUNT == 3
\* SESSION_CONFIG.MAX_PLAYERS
MAX_PLAYERS == 8

VARIABLES
    splitIn,      \* totalAmount passed to calculatePaymentSplit, in cents
    splitOut,     \* the object it returned, shares in cents, or NoRec before the call
    clock,        \* the wall clock (Date.now()), in ticks
    jwtSecret,    \* whether process.env.JWT_SECRET is set
    nodeEnv,      \* process.env.NODE_ENV
    users,        \* table users: id -> row
    sessions,     \* table game_sessions: id -> row
    participants, \* table game_participants: set of rows
    transactions, \* table transactions: set of rows
    cache,        \* Redis: key -> the object stored under it, or NoRec
    reqs,         \* the HTTP requests: id -> position, inputs, locals, response
    gameConfig,   \* table game_config: set of rows, key unique
    boot,         \* the server process: position of startServer, and its runs
    sockets,      \* the socket.io connections: id -> connected, rooms, events sent to it
    retryRun      \* a call of retry: its arguments, position, and what fn and sleep did

splitVars == <<splitIn, splitOut>>
dbVars == <<users, sessions, participants, transactions, gameConfig>>
envVars == <<clock, jwtSecret, nodeEnv>>
serverVars == <<boot, sockets>>
httpVars == <<clock, jwtSecret, nodeEnv, users, sessions, participants, transactions, cache, reqs,
              gameConfig, boot, sockets>>
vars == <<splitIn, splitOut, clock, jwtSecret, nodeEnv, users, sessions, participants,
          transactions, cache, reqs, gameConfig, boot, sockets, retryRun>>

(***************************************************************************)
(* src/shared/utils/index.ts: calculatePaymentSplit                        *)
(***************************************************************************)
RECURSIVE Pow2Mod25(_)
\* 2^n modulo 25
Pow2Mod25(n) == IF n = 0 THEN 1 ELSE (2 * Pow2Mod25(n - 1)) % 25

RECURSIVE BinaryExponent(_, _)
\* the j with 2^j <= c/100 < 2^(j+1), for c >= 1, counted from j
BinaryExponent(c, j) ==
    IF c >= 200 THEN BinaryExponent(c \div 2, j + 1)
    ELSE IF c < 100 THEN BinaryExponent(2 * c, j - 1)
    ELSE j

\* The double nearest to c/100 has the 53-bit significand round(c * 2^(50-j) / 25).
\* The remainder of that division tells on which side of c/100 the double lies:
\* -1 below, 0 exactly c/100, 1 above (25 is odd: there is no tie).
DoubleErrSign(c) ==
    LET j   == BinaryExponent(c, 0)
        rem == ((c % 25) * Pow2Mod25(50 - j)) % 25
    IN  IF rem = 0 THEN 0 ELSE IF 2 * rem < 25 THEN -1 ELSE 1

\* Number((totalAmount * (1/d)).toFixed(2)) in cents, d a power of two: the
\* product is exact, and toFixed picks the n with n/100 nearest to it, the
\* larger n when the two candidates are equally near.
ToFixed2Share(c, d) ==
    LET lo == c \div d
        rm == c % d
    IN  IF 2 * rm < d THEN lo
        ELSE IF 2 * rm > d THEN lo + 1
        ELSE IF DoubleErrSign(c) < 0 THEN lo ELSE lo + 1

calculatePaymentSplit(totalAmount) ==
    [ developer |-> ToFixed2Share(totalAmount, 4),
      creator   |-> ToFixed2Share(totalAmount, 4),
      winner    |-> ToFixed2Share(totalAmount, 2) ]

(***************************************************************************)
(* The data the server works on.                                           *)
(***************************************************************************)
UserIds == {"u1", "u2"}
\* a user id that no row of the users table has
UnknownUser == "u9"
SessionIds == {"s1"}
UnknownSession == "s9"
ReqIds == 1..MaxReqs

\* prisma/schema.prisma: enum SessionStatus
SessionStatus == {"WAITING", "STARTING", "ACTIVE", "COMPLETED", "CANCELLED"}

\* the whopUserId the users table holds for each user
WhopIdOf(u) == IF u = "u1" THEN "w1" ELSE "w2"

\* prisma/schema.prisma: model User (amounts in cents, times in ticks)
UserRow(u, tokens, lastReset) ==
    [ id |-> u, whopUserId |-> WhopIdOf(u), username |-> u,
      creditsBalance |-> 500, tokensRemaining |-> tokens,
      lastTokenReset |-> lastReset ]

\* prisma/schema.prisma: model GameSession, as created with its defaults
SessionRow(s, max) ==
    [ id |-> s, creatorId |-> "u1", entryFee |-> 1000, maxPlayers |-> max,
      currentPlayers |-> 0, status |-> "WAITING" ]

\* prisma.user.findUnique({ where: { id } })
FindUser(id) == IF id \in DOMAIN users THEN users[id] ELSE NoRec

\* a field of a JavaScript object: undefined when the object has none
Field(obj, f) == IF f \in DOMAIN obj THEN obj[f] ELSE Null

(***************************************************************************)
(* src/shared/constants/index.ts: CACHE_KEYS; src/server/services/redis.ts *)
(***************************************************************************)
USER_PROFILE(userId) == <<"user:profile", userId>>
USER_TOKENS(userId) == <<"user:tokens", userId>>

CacheKeys == {USER_PROFILE(u) : u \in UserIds} \cup {USER_TOKENS(u) : u \in UserIds}

\* CacheService.get: null for a key that is not stored
CacheGet(key) == IF key \in DOMAIN cache THEN cache[key] ELSE NoRec

\* CacheService.set
CacheSet(key, value) == [cache EXCEPT ![key] = value]

\* CacheService.del
CacheDel(key) == [cache EXCEPT ![key] = NoRec]

(***************************************************************************)
(* Requests and responses.                                                 *)
(***************************************************************************)
\* the Authorization header: absent, of another scheme, or 'Bearer <token>'
NoHeader == [scheme |-> "none"]
BasicHeader == [scheme |-> "basic"]
Bearer(token) == [scheme |-> "bearer", token |-> token]

\* a JWT: whether its signature verifies under JWT_SECRET, its exp claim, whether
\* its payload has the shape of tokenSchema, and the two ids it carries
Jwt(sig, exp, wellFormed, userId, whopUserId) ==
    [ whopUserId |-> whopUserId, userId |-> userId,
      sig |-> sig, exp |-> exp, wellFormed |-> wellFormed ]

\* a JSON value of a request body: a number in hundredths, a string, or absent
Num(v) == [v |-> v, t |-> "number"]
Str == [t |-> "string"]
Absent == [t |-> "absent"]

FreeReq ==
    [ id |-> Null, pc |-> "free", route |-> Null, header |-> NoHeader,
      body |-> NoRec, user |-> NoRec, loc |-> NoRec, resp |-> NoRec ]

\* res.status(status).json({ error, message, ... }), sent by the function `from`
Resp(status, error, message, from) ==
    [ status |-> status, error |-> error, message |-> message, from |-> from ]

\* res.json({ success: true, message, ... })
Success(message, from) ==
    [ status |-> 200, error |-> Null, message |-> message, from |-> from ]

Respond(r, resp) ==
    reqs' = [reqs EXCEPT ![r].pc = "done", ![r].resp = resp]

(***************************************************************************)
(* src/server/middleware/errorHandler.ts                                   *)
(***************************************************************************)
\* new AppError(code, message, statusCode) and its subclass ValidationError
AppError(name, code, message, statusCode) ==
    [ message |-> message, name |-> name, code |-> code,
      statusCode |-> statusCode, class |-> "AppError" ]

ValidationError(message) == AppError("ValidationError", "VALIDATION_ERROR", message, 400)

\* new Error(message), with the stack it captured
PlainError(message, stack) ==
    [ message |-> message, name |-> "Error", code |-> Null,
      statusCode |-> 0, class |-> "Error", stack |-> stack ]

\* handlePrismaError: the response for a PrismaClientKnownRequestError, by its code
handlePrismaError(error) ==
    LET Sent(status, code, message, details) ==
            [ status |-> status, error |-> code, message |-> message,
              from |-> "errorHandler", details |-> details ]
    IN  IF error.code = "P2002"
            THEN Sent(409, "VALIDATION_ERROR", "Duplicate value", "unique_violation")
        ELSE IF error.code = "P2014"
            THEN Sent(400, "VALIDATION_ERROR", "Invalid reference to related record",
                      "foreign_key_violation")
        ELSE IF error.code = "P2003"
            THEN Sent(400, "VALIDATION_ERROR", "Related record not found",
                      "foreign_key_constraint")
        ELSE IF error.code = "P2025"
            THEN Sent(404, "VALIDATION_ERROR", "Record not found", "record_not_found")
        ELSE IF error.code \in {"P2021", "P2022"}
            THEN Sent(500, "INTERNAL_ERROR", "Database schema error",
                      IF error.code = "P2021" THEN "table_not_found" ELSE "column_not_found")
        ELSE IF error.code = "P1008"
            THEN Sent(504, "INTERNAL_ERROR", "Database operation timed out", "timeout")
        ELSE IF error.code = "P1001"
            THEN Sent(503, "INTERNAL_ERROR", "Database connection error", "connection_error")
        ELSE Sent(500, "INTERNAL_ERROR", "Database error", error.code)

\* the cases of the switch of errorHandler: the response of the case that equals
\* value, or none
switchCases(value) ==
    IF value = "USER_NOT_FOUND"
        THEN Resp(404, "USER_NOT_FOUND", "User not found", "errorHandler")
    ELSE IF value = "SESSION_NOT_FOUND"
        THEN Resp(404, "SESSION_NOT_FOUND", "Game session not found", "errorHandler")
    ELSE IF value = "INSUFFICIENT_CREDITS"
        THEN Resp(403, "INSUFFICIENT_CREDITS", "Insufficient credits for this action",
                  "errorHandler")
    ELSE IF value = "NO_TOKENS_REMAINING"
        THEN Resp(403, "NO_TOKENS_REMAINING", "No tokens remaining", "errorHandler")
    ELSE IF value = "SESSION_FULL"
        THEN Resp(409, "SESSION_FULL", "Game session is full", "errorHandler")
    ELSE IF value = "ALREADY_IN_SESSION"
        THEN Resp(409, "ALREADY_IN_SESSION", "User already in a game session",
                  "errorHandler")
    ELSE IF value = "PAYMENT_FAILED"
        THEN Resp(402, "PAYMENT_FAILED", "Payment processing failed", "errorHandler")
    ELSE NoRec

\* a switch on the error's code, as handlePrismaError has it
switchOnMessage_OnCode(error) == switchCases(error.code)

\* switch (error.message)
switchOnMessage(error) == switchCases(error.message)

\* a default branch that sends the error's message whatever NODE_ENV is
defaultError_AlwaysMessage(error) ==
    [ status |-> 500, error |-> "INTERNAL_ERROR", message |-> error.message,
      from |-> "errorHandler",
      stack |-> IF nodeEnv = "development" THEN Field(error, "stack") ELSE Null ]

\* the default branch: 500 INTERNAL_ERROR; the message is generic in production
\* and the error's own otherwise, and the stack is sent in development
defaultError(error) ==
    [ status |-> 500, error |-> "INTERNAL_ERROR",
      message |-> IF nodeEnv = "production" THEN "Internal server error"
                  ELSE error.message,
      from |-> "errorHandler",
      stack |-> IF nodeEnv = "development" THEN Field(error, "stack") ELSE Null ]

errorHandler(error) ==
    IF error.class = "ZodError"
        THEN Resp(400, "VALIDATION_ERROR", "Validation failed", "errorHandler")
    ELSE IF error.class = "PrismaClientKnownRequestError"
        THEN handlePrismaError(error)
    ELSE IF error.class = "PrismaClientValidationError"
        THEN Resp(400, "VALIDATION_ERROR", "Database validation error", "errorHandler")
    ELSE IF error.name = "JsonWebTokenError"
        THEN Resp(401, "INVALID_TOKEN", "Invalid token", "errorHandler")
    ELSE IF error.name = "TokenExpiredError"
        THEN Resp(401, "INVALID_TOKEN", "Token expired", "errorHandler")
    ELSE IF error.code # Null /\ error.statusCode # 0
        THEN Resp(error.statusCode, error.code, error.message, "errorHandler")
    ELSE IF switchOnMessage(error) # NoRec
        THEN switchOnMessage(error)
    ELSE defaultError(error)

(***************************************************************************)
(* src/server/middleware/auth.ts: authMiddleware                           *)
(***************************************************************************)
\* extractTokenFromHeader: the token, or null unless the header is 'Bearer ...'
extractTokenFromHeader(authHeader) ==
    IF authHeader.scheme = "bearer" THEN authHeader.token ELSE NoRec

\* a verification that does not look at the exp claim
verifyJwtToken_IgnoreExpiration(token) ==
    IF ~jwtSecret THEN "JWT_SECRET not configured"
    ELSE IF ~token.sig THEN "JsonWebTokenError"
    ELSE "ok"

\* verifyJwtToken: jwt.verify(token, JWT_SECRET); the error thrown, or "ok"
verifyJwtToken(token) ==
    IF ~jwtSecret THEN "JWT_SECRET not configured"
    ELSE IF ~token.sig THEN "JsonWebTokenError"
    ELSE IF clock >= token.exp THEN "TokenExpiredError"
    ELSE "ok"

\* tokenSchema.safeParse(decoded).success
tokenSchemaOk(decoded) == decoded.wellFormed

\* the object getUserFromCacheOrDB selects from the users table and caches
AuthUser(row) ==
    [ id |-> row.id, whopUserId |-> row.whopUserId, username |-> row.username,
      creditsBalance |-> row.creditsBalance,
      tokensRemaining |-> row.tokensRemaining,
      lastTokenReset |-> row.lastTokenReset ]

\* a check of step 5 that lets every token through
whopUserIdMatches_Any(user, whopUserId) == TRUE

\* step 5: the token's whopUserId is that of the user found
whopUserIdMatches(user, whopUserId) == Field(user, "whopUserId") = whopUserId

\* steps 5 and 6 without the assignment of req.user
AuthFinish_NoUser(r, user) ==
    IF ~whopUserIdMatches(user, reqs[r].header.token.whopUserId)
    THEN Respond(r, Resp(401, "INVALID_TOKEN", "Token user mismatch", "authMiddleware"))
    ELSE reqs' = [reqs EXCEPT ![r].pc = "handler", ![r].loc = NoRec]

\* steps 5 and 6 of authMiddleware, on the user found in the cache or the
\* database: 401 on a mismatch, else req.user is attached and next() called
AuthFinish(r, user) ==
    IF ~whopUserIdMatches(user, reqs[r].header.token.whopUserId)
    THEN Respond(r, Resp(401, "INVALID_TOKEN", "Token user mismatch", "authMiddleware"))
    ELSE reqs' = [reqs EXCEPT
            ![r].pc = "handler",
            ![r].loc = NoRec,
            ![r].user = [ id |-> Field(user, "id"),
                          whopUserId |-> Field(user, "whopUserId"),
                          username |-> Field(user, "username") ]]

\* steps 1 to 3, and the cache read of getUserFromCacheOrDB
AuthStart(r) ==
    /\ reqs[r].pc = "auth"
    /\ LET token == extractTokenFromHeader(reqs[r].header)
       IN  IF token = NoRec
           THEN /\ Respond(r, Resp(401, "UNAUTHORIZED", "Access token required",
                                   "authMiddleware"))
                /\ UNCHANGED cache
           ELSE IF verifyJwtToken(token) = "JWT_SECRET not configured"
           THEN /\ Respond(r, Resp(500, "INTERNAL_ERROR",
                                   "Authentication service unavailable", "authMiddleware"))
                /\ UNCHANGED cache
           ELSE IF verifyJwtToken(token) # "ok"
           THEN /\ Respond(r, Resp(401, "INVALID_TOKEN", "Invalid or expired token",
                                   "authMiddleware"))
                /\ UNCHANGED cache
           ELSE IF ~tokenSchemaOk(token)
           THEN /\ Respond(r, Resp(401, "INVALID_TOKEN", "Invalid token format",
                                   "authMiddleware"))
                /\ UNCHANGED cache
           ELSE LET user == CacheGet(USER_PROFILE(token.userId))
                IN  IF user # NoRec
                    THEN AuthFinish(r, user) /\ UNCHANGED cache
                    ELSE /\ reqs' = [reqs EXCEPT ![r].pc = "authDb"]
                         /\ UNCHANGED cache
    /\ UNCHANGED <<splitVars, retryRun, envVars, serverVars, dbVars>>

\* getUserFromCacheOrDB: prisma.user.findUnique after a cache miss
AuthDbRead(r) ==
    /\ reqs[r].pc = "authDb"
    /\ LET dbUser == FindUser(reqs[r].header.token.userId)
       IN  IF dbUser = NoRec
           THEN Respond(r, Resp(401, "USER_NOT_FOUND", "User not found", "authMiddleware"))
           ELSE reqs' = [reqs EXCEPT ![r].pc = "authSet", ![r].loc = AuthUser(dbUser)]
    /\ UNCHANGED <<splitVars, retryRun, envVars, serverVars, dbVars, cache>>

\* getUserFromCacheOrDB: cache.set of the user read, then steps 5 and 6
AuthCacheSet(r) ==
    /\ reqs[r].pc = "authSet"
    /\ cache' = CacheSet(USER_PROFILE(reqs[r].loc.id), reqs[r].loc)
    /\ AuthFinish(r, reqs[r].loc)
    /\ UNCHANGED <<splitVars, retryRun, envVars, serverVars, dbVars>>

\* an entry of the cache reaches its TTL
CacheExpire(key) ==
    /\ cache[key] # NoRec
    /\ cache' = CacheDel(key)
    /\ UNCHANGED <<splitVars, retryRun, envVars, serverVars, dbVars, reqs>>

(***************************************************************************)
(* src/server/routes/session.ts and the other stub routes                  *)
(***************************************************************************)
CreateRoute == "POST /api/sessions/create"
JoinRoute == "POST /api/sessions/:id/join"
ProfileRoute == "GET /api/user/profile"
\* routes whose handler only answers 'to be implemented'
StubRoutes ==
    { "GET /api/sessions/:id/status", "GET /api/leaderboard/daily",
      "GET /api/payments/balance", "GET /api/game/:sessionId/state" }

\* a schema whose upper bound is exclusive
zNumberMinMax_ExclusiveMax(value, lo, hi) ==
    value.t = "number" /\ value.v >= lo * 100 /\ value.v < hi * 100

\* z.number().min(lo).max(hi), bounds in units, the value in hundredths
zNumberMinMax(value, lo, hi) ==
    value.t = "number" /\ value.v >= lo * 100 /\ value.v <= hi * 100

\* createSessionSchema.safeParse(body).success
createSessionSchema(body) ==
    /\ zNumberMinMax(body.entryFee, 1, 100)
    /\ body.maxPlayers.t = "absent" \/ zNumberMinMax(body.maxPlayers, 1, 8)

\* router.post('/create'): a ValidationError thrown goes through asyncHandler's
\* catch to errorHandler
CreateSession(r) ==
    /\ reqs[r].pc = "handler"
    /\ reqs[r].route = CreateRoute
    /\ IF ~createSessionSchema(reqs[r].body)
       THEN Respond(r, errorHandler(ValidationError("Invalid session data")))
       ELSE Respond(r, Success("Session creation endpoint - to be implemented", "handler"))
    /\ UNCHANGED <<splitVars, retryRun, envVars, serverVars, dbVars, cache>>

\* router.post('/:id/join')
JoinSession(r) ==
    /\ reqs[r].pc = "handler"
    /\ reqs[r].route = JoinRoute
    /\ Respond(r, Success("Session joining endpoint - to be implemented", "handler"))
    /\ UNCHANGED <<splitVars, retryRun, envVars, serverVars, dbVars, cache>>

\* the handlers of session status, leaderboard, payments and game routes
StubRoute(r) ==
    /\ reqs[r].pc = "handler"
    /\ reqs[r].route \in StubRoutes
    /\ Respond(r, Success("to be implemented", "handler"))
    /\ UNCHANGED <<splitVars, retryRun, envVars, serverVars, dbVars, cache>>

(***************************************************************************)
(* routes/user.ts: GET /profile                                            *)
(***************************************************************************)
\* res.json(data)
Json(data) ==
    [ status |-> 200, error |-> Null, message |-> Null, from |-> "handler",
      data |-> data ]

ParticipationsOf(userId) == {p \in participants : p.userId = userId}

PrizePayoutsOf(userId) ==
    {t \in transactions : /\ t.userId = userId
                          /\ t.transactionType = "PRIZE_PAYOUT"
                          /\ t.status = "COMPLETED"}

RECURSIVE SumAmounts(_)
SumAmounts(ts) ==
    IF ts = {} THEN 0
    ELSE LET t == CHOOSE x \in ts : TRUE IN t.amount + SumAmounts(ts \ {t})

\* Math.max(...scores, 0)
BestScore(ps) ==
    IF ps = {} THEN 0
    ELSE LET best == CHOOSE p \in ps : \A q \in ps : q.score <= p.score
         IN  IF best.score > 0 THEN best.score ELSE 0

\* the UserProfileResponse built from the row and its relations; winRate in
\* hundredths of a percent
UserProfileResponse(row) ==
    LET ps == ParticipationsOf(row.id)
        totalGames == Cardinality(ps)
        totalWins == Cardinality({p \in ps : p.placement = 1})
    IN  [ user |-> [ id |-> row.id, whopUserId |-> row.whopUserId,
                     username |-> row.username,
                     creditsBalance |-> row.creditsBalance,
                     tokensRemaining |-> row.tokensRemaining,
                     lastTokenReset |-> row.lastTokenReset ],
          stats |-> [ totalGames |-> totalGames, totalWins |-> totalWins,
                      totalEarnings |-> SumAmounts(PrizePayoutsOf(row.id)),
                      bestScore |-> BestScore(ps),
                      winRate |-> IF totalGames > 0
                                  THEN (totalWins * 10000) \div totalGames ELSE 0 ] ]

\* cache.get of the profile; a hit is sent as it is
GetProfile(r) ==
    /\ reqs[r].pc = "handler"
    /\ reqs[r].route = ProfileRoute
    /\ LET user == CacheGet(USER_PROFILE(reqs[r].user.id))
       IN  IF user # NoRec
           THEN Respond(r, Json(user))
           ELSE reqs' = [reqs EXCEPT ![r].pc = "profileDb"]
    /\ UNCHANGED <<splitVars, retryRun, envVars, serverVars, dbVars, cache>>

\* prisma.user.findUnique with participations and prize payouts
GetProfileDb(r) ==
    /\ reqs[r].pc = "profileDb"
    /\ LET userData == FindUser(reqs[r].user.id)
       IN  IF userData = NoRec
           THEN Respond(r, Resp(404, "USER_NOT_FOUND", "User not found", "handler"))
           ELSE reqs' = [reqs EXCEPT ![r].pc = "profileSet",
                                     ![r].loc = UserProfileResponse(userData)]
    /\ UNCHANGED <<splitVars, retryRun, envVars, serverVars, dbVars, cache>>

\* cache.set of the response, then res.json
GetProfileSet(r) ==
    /\ reqs[r].pc = "profileSet"
    /\ cache' = CacheSet(USER_PROFILE(reqs[r].user.id), reqs[r].loc)
    /\ Respond(r, Json(reqs[r].loc))
    /\ UNCHANGED <<splitVars, retryRun, envVars, serverVars, dbVars>>

(***************************************************************************)
(* routes/user.ts: PUT /profile.  A username is the sequence of its         *)
(* characters.                                                             *)
(***************************************************************************)
PutProfileRoute == "PUT /api/user/profile"

\* a JSON string of a request body, by its characters
Name(chars) == [t |-> "string", chars |-> chars]

\* characters of the class [a-zA-Z0-9_-] that the model's usernames use
UsernameChars == {"a", "b", "c", "e", "o", "z", "d", "7", "_", "-"}

\* z.string().min(3).max(20).regex(/^[a-zA-Z0-9_-]+$/).optional()
updateProfileSchema(body) ==
    \/ body.username.t = "absent"
    \/ /\ Len(body.username.chars) >= 3
       /\ Len(body.username.chars) <= 20
       /\ \A i \in 1..Len(body.username.chars) : body.username.chars[i] \in UsernameChars

\* prisma.user.findFirst({ where: { username, id: { not: userId } } })
findFirstByUsername(username, userId) ==
    {u \in DOMAIN users : users[u].username = username /\ u # userId}

\* updateProfileSchema.safeParse(req.body); a ValidationError thrown goes
\* through asyncHandler's catch to errorHandler
PutProfile(r) ==
    /\ reqs[r].pc = "handler"
    /\ reqs[r].route = PutProfileRoute
    /\ IF ~updateProfileSchema(reqs[r].body)
       THEN Respond(r, errorHandler(ValidationError("Invalid profile data")))
       ELSE IF reqs[r].body.username.t # "absent"
       THEN reqs' = [reqs EXCEPT ![r].pc = "putFind"]
       ELSE reqs' = [reqs EXCEPT ![r].pc = "putUpdate"]
    /\ UNCHANGED <<splitVars, retryRun, envVars, serverVars, dbVars, cache>>

\* the check that no other user holds the username
PutProfileFind(r) ==
    /\ reqs[r].pc = "putFind"
    /\ IF findFirstByUsername(reqs[r].body.username.chars, reqs[r].user.id) # {}
       THEN Respond(r, Resp(409, "USERNAME_TAKEN", "Username is already taken", "handler"))
       ELSE reqs' = [reqs EXCEPT ![r].pc = "putUpdate"]
    /\ UNCHANGED <<splitVars, retryRun, envVars, serverVars, dbVars, cache>>

\* prisma.user.update({ where: { id: userId }, data: { username, updatedAt } })
PutProfileUpdate(r) ==
    /\ reqs[r].pc = "putUpdate"
    /\ users' = IF reqs[r].body.username.t # "absent"
                THEN [users EXCEPT ![reqs[r].user.id].username = reqs[r].body.username.chars]
                ELSE users
    /\ reqs' = [reqs EXCEPT ![r].pc = "putDel",
                            ![r].loc = [updatedUser |-> users'[reqs[r].user.id]]]
    /\ UNCHANGED <<splitVars, retryRun, envVars, serverVars, sessions, participants, transactions,
                   gameConfig, cache>>

\* cache.del of the user's profile key, then the success response
PutProfileDel(r) ==
    /\ reqs[r].pc = "putDel"
    /\ cache' = CacheDel(USER_PROFILE(reqs[r].user.id))
    /\ Respond(r, [ status |-> 200, error |-> Null,
                    message |-> "Profile updated successfully",
                    from |-> "handler", data |-> reqs[r].loc.updatedUser ])
    /\ UNCHANGED <<splitVars, retryRun, envVars, serverVars, dbVars>>

(***************************************************************************)
(* src/server/services/database.ts: initializeDatabase, setupInitialConfig; *)
(* src/server/index.ts: startServer and the shutdown on SIGTERM            *)
(***************************************************************************)
ConfigRow(key, value, category) == [key |-> key, value |-> value, category |-> category]

\* the rows of createMany in setupInitialConfig
InitialConfig ==
    { ConfigRow("MIN_ENTRY_FEE", "1.00", "payment"),
      ConfigRow("MAX_ENTRY_FEE", "100.00", "payment"),
      ConfigRow("DEFAULT_ENTRY_FEE", "5.00", "payment"),
      ConfigRow("DAILY_TOKEN_COUNT", "3", "tokens"),
      ConfigRow("MAX_PLAYERS_PER_SESSION", "8", "game"),
      ConfigRow("DEVELOPER_SPLIT", "25", "payment"),
      ConfigRow("CREATOR_SPLIT", "25", "payment"),
      ConfigRow("WINNER_SPLIT", "50", "payment") }

ConfigKeys(rows) == {row.key : row \in rows}

\* the server process before its first start, and listening after one start
ServerDown == [pc |-> "down", runs |-> 0]
ServerUp == [pc |-> "up", runs |-> 1]

\* no request is between its arrival and its response
NoneInFlight == \A r \in ReqIds : reqs[r].pc \in {"free", "done"}

\* startServer, up to prisma.$connect() of initializeDatabase
StartServer ==
    /\ boot.pc \in {"down", "failed"}
    /\ boot.runs < MaxBoots
    /\ boot' = [pc |-> "read", runs |-> boot.runs + 1]
    /\ UNCHANGED <<splitVars, retryRun, envVars, dbVars, cache, reqs, sockets>>

\* setupInitialConfig: prisma.gameConfig.findMany(); the table is seeded only if
\* it holds no row at all, otherwise initialization is complete and the server
\* listens
SetupInitialConfigRead ==
    /\ boot.pc = "read"
    /\ boot' = [boot EXCEPT !.pc = IF gameConfig = {} THEN "create" ELSE "up"]
    /\ UNCHANGED <<splitVars, retryRun, envVars, dbVars, cache, reqs, sockets>>

\* prisma.gameConfig.createMany: key is unique, a clash throws and startServer
\* exits the process
SetupInitialConfigCreate ==
    /\ boot.pc = "create"
    /\ IF ConfigKeys(gameConfig) \cap ConfigKeys(InitialConfig) # {}
       THEN /\ boot' = [boot EXCEPT !.pc = "failed"]
            /\ UNCHANGED gameConfig
       ELSE /\ gameConfig' = gameConfig \cup InitialConfig
            /\ boot' = [boot EXCEPT !.pc = "up"]
    /\ UNCHANGED <<splitVars, retryRun, envVars, users, sessions, participants, transactions,
                   cache, reqs, sockets>>

\* SIGTERM: server.close() lets the requests in flight finish, then the process
\* exits and its connections are gone
Shutdown ==
    /\ boot.pc = "up"
    /\ NoneInFlight
    /\ boot' = [boot EXCEPT !.pc = "down"]
    /\ sockets' = [k \in DOMAIN sockets |-> [sockets[k] EXCEPT !.connected = FALSE,
                                                               !.rooms = {}]]
    /\ UNCHANGED <<splitVars, retryRun, envVars, dbVars, cache, reqs>>

(***************************************************************************)
(* services/websocket.ts: initializeWebSocketServer                        *)
(***************************************************************************)
SocketIds == {"k1", "k2"}

\* a connection: whether it is open, the rooms it joined, the events the server
\* emitted to it, and the lines console.log wrote for the events it sent
NoSockets ==
    [k \in SocketIds |-> [connected |-> FALSE, rooms |-> {}, sent |-> <<>>, log |-> <<>>]]

\* console.log of a handler, for the socket whose event it handles
Logged(k, event, arg) ==
    [sockets EXCEPT ![k].log = Append(@, [event |-> event, arg |-> arg])]

\* io.on('connection')
Connection(k) ==
    /\ boot.pc = "up"
    /\ ~sockets[k].connected
    /\ Len(sockets[k].log) < MaxEvents
    /\ sockets' = [Logged(k, "connection", Null) EXCEPT ![k].connected = TRUE]
    /\ UNCHANGED <<splitVars, retryRun, envVars, dbVars, cache, reqs, boot>>

\* socket.on('join_game'): socket.join(sessionId), whatever the id is
JoinGame(k, sessionId) ==
    /\ sockets[k].connected
    /\ Len(sockets[k].log) < MaxEvents
    /\ sockets' = [Logged(k, "join_game", sessionId) EXCEPT
                        ![k].rooms = @ \cup {sessionId}]
    /\ UNCHANGED <<splitVars, retryRun, envVars, dbVars, cache, reqs, boot>>

\* socket.on('player_move'): the handler logs
PlayerMove(k, direction) ==
    /\ sockets[k].connected
    /\ Len(sockets[k].log) < MaxEvents
    /\ sockets' = Logged(k, "player_move", direction)
    /\ UNCHANGED <<splitVars, retryRun, envVars, dbVars, cache, reqs, boot>>

\* socket.on('player_accelerate'): the handler logs
PlayerAccelerate(k, accelerating) ==
    /\ sockets[k].connected
    /\ Len(sockets[k].log) < MaxEvents
    /\ sockets' = Logged(k, "player_accelerate", accelerating)
    /\ UNCHANGED <<splitVars, retryRun, envVars, dbVars, cache, reqs, boot>>

\* socket.on('leave_game'): the handler logs; the socket stays in its rooms
LeaveGame(k) ==
    /\ sockets[k].connected
    /\ Len(sockets[k].log) < MaxEvents
    /\ sockets' = Logged(k, "leave_game", Null)
    /\ UNCHANGED <<splitVars, retryRun, envVars, dbVars, cache, reqs, boot>>

\* socket.on('disconnect'): socket.io has taken the socket out of its rooms
Disconnect(k) ==
    /\ sockets[k].connected
    /\ Len(sockets[k].log) < MaxEvents
    /\ sockets' = [Logged(k, "disconnect", Null) EXCEPT ![k].connected = FALSE,
                                                       ![k].rooms = {}]
    /\ UNCHANGED <<splitVars, retryRun, envVars, dbVars, cache, reqs, boot>>

(***************************************************************************)
(* src/shared/utils/index.ts: retry(fn, attempts, delay) and sleep.  fn is  *)
(* the caller's: each invocation of it resolves with a value or rejects     *)
(* with an error.                                                          *)
(***************************************************************************)
Undefined == "undefined"

\* delays in milliseconds, values fn resolves with and errors it rejects with
Delays == {100, 250}
FnValues == {"v1", "v2"}
FnErrors == {"e1", "e2"}

\* no call of retry has been made
RetryIdle ==
    [ pc |-> "idle", i |-> 0, attempts |-> 0, delay |-> 0, running |-> 0,
      outcomes |-> <<>>, waits |-> <<>>, lastError |-> Undefined, result |-> Undefined ]

\* retry(fn, attempts, delay) is called: let lastError; i = 0
RetryCall(attempts, delay) ==
    /\ retryRun.pc = "idle"
    /\ retryRun' = [retryRun EXCEPT !.pc = "loop", !.attempts = attempts,
                                    !.delay = delay]
    /\ UNCHANGED <<splitVars, httpVars>>

\* i < attempts: fn() is invoked and awaited
RetryInvoke ==
    /\ retryRun.pc = "loop"
    /\ retryRun.i < retryRun.attempts
    /\ retryRun' = [retryRun EXCEPT !.pc = "await", !.running = @ + 1]
    /\ UNCHANGED <<splitVars, httpVars>>

\* the promise of fn resolves: return await fn()
RetryFnResolves(value) ==
    /\ retryRun.pc = "await"
    /\ retryRun' = [retryRun EXCEPT
            !.pc = "resolved",
            !.running = @ - 1,
            !.outcomes = Append(@, [v |-> value, ok |-> TRUE]),
            !.result = value]
    /\ UNCHANGED <<splitVars, httpVars>>

\* a catch block that sleeps after the last failure as after the others
RetryFnRejects_SleepAlways(error) ==
    /\ retryRun.pc = "await"
    /\ retryRun' = [retryRun EXCEPT
            !.pc = "sleep",
            !.running = @ - 1,
            !.outcomes = Append(@, [v |-> error, ok |-> FALSE]),
            !.waits = Append(@, retryRun.delay * (retryRun.i + 1)),
            !.lastError = error]
    /\ UNCHANGED <<splitVars, httpVars>>

\* the promise of fn rejects: lastError = error; unless this was the last
\* attempt, sleep(delay * (i + 1)) is started; otherwise i++
RetryFnRejects(error) ==
    /\ retryRun.pc = "await"
    /\ retryRun' = [retryRun EXCEPT
            !.pc = IF retryRun.i < retryRun.attempts - 1 THEN "sleep" ELSE "loop",
            !.i = IF retryRun.i < retryRun.attempts - 1 THEN @ ELSE @ + 1,
            !.running = @ - 1,
            !.outcomes = Append(@, [v |-> error, ok |-> FALSE]),
            !.waits = IF retryRun.i < retryRun.attempts - 1
                      THEN Append(@, retryRun.delay * (retryRun.i + 1)) ELSE @,
            !.lastError = error]
    /\ UNCHANGED <<splitVars, httpVars>>

\* the timer of sleep fires; i++
RetrySleepDone ==
    /\ retryRun.pc = "sleep"
    /\ retryRun' = [retryRun EXCEPT !.pc = "loop", !.i = @ + 1]
    /\ UNCHANGED <<splitVars, httpVars>>

\* the loop is left: throw lastError
RetryThrow ==
    /\ retryRun.pc = "loop"
    /\ ~(retryRun.i < retryRun.attempts)
    /\ retryRun' = [retryRun EXCEPT !.pc = "rejected", !.result = retryRun.lastError]
    /\ UNCHANGED <<splitVars, httpVars>>

(***************************************************************************)
(* src/server/index.ts: a request arrives at a route mounted behind        *)
(* authMiddleware                                                          *)
(***************************************************************************)
\* requests are numbered in the order they arrive
Arrive(r, route, header, id, body) ==
    /\ reqs[r].pc = "free"
    /\ IF r = 1 THEN TRUE ELSE reqs[r - 1].pc # "free"
    /\ reqs' = [reqs EXCEPT ![r] =
            [ id |-> id, pc |-> "auth", route |-> route, header |-> header,
              body |-> body, user |-> NoRec, loc |-> NoRec, resp |-> NoRec ]]
    /\ UNCHANGED <<splitVars, retryRun, envVars, serverVars, dbVars, cache>>

\* an exp claim later than every clock value of the model, and one already past
FarExp == 1000000
PastExp == 0

GoodJwt(u) == Jwt(TRUE, FarExp, TRUE, u, WhopIdOf(u))

Headers ==
    { NoHeader, BasicHeader }
    \cup { Bearer(GoodJwt(u)) : u \in UserIds }
    \cup { Bearer(Jwt(FALSE, FarExp, TRUE, "u1", "w1")),
           Bearer(Jwt(TRUE, PastExp, TRUE, "u1", "w1")),
           Bearer(Jwt(TRUE, FarExp, FALSE, "u1", "w1")),
           Bearer(Jwt(TRUE, FarExp, TRUE, "u1", "w2")),
           Bearer(Jwt(TRUE, FarExp, TRUE, UnknownUser, "w1")) }

NoBody == [entryFee |-> Absent, maxPlayers |-> Absent]

\* bodies of POST /create: entry fees and player counts around the bounds
CreateBodies ==
    { [entryFee |-> f, maxPlayers |-> m] :
        f \in {Num(500), Num(99)}, m \in {Absent, Num(900)} }

ArriveAny(r) ==
    \/ \E h \in Headers, b \in CreateBodies : Arrive(r, CreateRoute, h, Null, b)
    \/ \E h \in Headers, s \in SessionIds \cup {UnknownSession} :
            Arrive(r, JoinRoute, h, s, NoBody)
    \/ \E h \in Headers : Arrive(r, ProfileRoute, h, Null, NoBody)
    \/ \E h \in Headers, route \in StubRoutes : Arrive(r, route, h, Null, NoBody)

HttpIdle ==
    /\ clock = 0
    /\ jwtSecret = TRUE
    /\ nodeEnv = "production"
    /\ users = [u \in UserIds |-> UserRow(u, DAILY_TOKEN_COUNT, 0)]
    /\ sessions = [s \in SessionIds |-> SessionRow(s, MAX_PLAYERS)]
    /\ participants = {}
    /\ transactions = {}
    /\ gameConfig = InitialConfig
    /\ boot = ServerUp
    /\ sockets = NoSockets
    /\ cache = [k \in CacheKeys |-> NoRec]
    /\ reqs = [r \in ReqIds |-> FreeReq]

SplitIdle ==
    /\ splitIn = 0
    /\ splitOut = NoRec
    /\ retryRun = RetryIdle

Init ==
    /\ SplitIdle
    /\ clock = 1
    /\ jwtSecret \in BOOLEAN
    /\ nodeEnv = "production"
    /\ \E t \in {0, DAILY_TOKEN_COUNT} :
         users = [u \in UserIds |->
                    UserRow(u, IF u = "u1" THEN t ELSE DAILY_TOKEN_COUNT, 0)]
    /\ \E max \in {1, MAX_PLAYERS} :
         sessions = [s \in SessionIds |-> SessionRow(s, max)]
    /\ participants = {}
    /\ transactions = {}
    /\ gameConfig = InitialConfig
    /\ boot = ServerUp
    /\ sockets = NoSockets
    /\ cache = [k \in CacheKeys |-> NoRec]
    /\ reqs = [r \in ReqIds |-> FreeReq]

Next ==
    \/ \E r \in ReqIds :
        \/ ArriveAny(r)
        \/ AuthStart(r)
        \/ AuthDbRead(r)
        \/ AuthCacheSet(r)
        \/ CreateSession(r)
        \/ JoinSession(r)
        \/ StubRoute(r)
        \/ GetProfile(r)
        \/ GetProfileDb(r)
        \/ GetProfileSet(r)
    \/ \E k \in CacheKeys : CacheExpire(k)

Spec == Init /\ [][Next]_vars

(***************************************************************************)
(* Claims about authentication and the session routes, under Spec.         *)
(***************************************************************************)
\* the request is past authMiddleware: its route handler has been entered
HandlerEntered(r) ==
    \/ reqs[r].pc \in {"handler", "profileDb", "profileSet"}
    \/ reqs[r].pc = "done" /\ reqs[r].resp.from # "authMiddleware"

\* the request carries a bearer token with a valid signature, not expired, of the
\* shape of tokenSchema, for a user of the users table with that whopUserId
BearerTokenGood(r) ==
    /\ reqs[r].header.scheme = "bearer"
    /\ jwtSecret
    /\ reqs[r].header.token.sig
    /\ reqs[r].header.token.exp > clock
    /\ reqs[r].header.token.wellFormed
    /\ reqs[r].header.token.userId \in DOMAIN users
    /\ users[reqs[r].header.token.userId].whopUserId = reqs[r].header.token.whopUserId

\* C2: no route handler mounted behind authMiddleware runs for a request unless
\* the request's bearer token is good (valid signature, existing user, matching
\* whopUserId) and req.user has been attached for the token's user.
C2_HandlerOnlyAfterAuth ==
    \A r \in ReqIds :
        HandlerEntered(r) =>
            /\ BearerTokenGood(r)
            /\ reqs[r].user # NoRec
            /\ reqs[r].user.id = reqs[r].header.token.userId

\* a handler has answered one request and authMiddleware has refused another whose
\* token was signed for u1 with the whopUserId of u2
C2_Witness ==
    \E r1, r2 \in ReqIds :
        /\ reqs[r1].pc = "done" /\ reqs[r1].resp.from = "handler"
        /\ reqs[r1].resp.status = 200
        /\ reqs[r2].pc = "done" /\ reqs[r2].resp.from = "authMiddleware"
        /\ reqs[r2].resp.message = "Token user mismatch"

\* authMiddleware has answered request r with this status and error code
AuthRefused(r, status, error) ==
    /\ reqs[r].pc = "done"
    /\ reqs[r].resp.from = "authMiddleware"
    /\ reqs[r].resp.status = status
    /\ reqs[r].resp.error = error

\* C12: with JWT_SECRET configured, a request past authMiddleware's first step
\* whose Authorization header is missing or is not 'Bearer ...' has been answered
\* 401 UNAUTHORIZED 'Access token required', and one whose bearer token fails
\* jwt.verify (bad signature or malformed, or expired) has been answered 401
\* INVALID_TOKEN; neither has reached a route handler.
C12_AuthRejections ==
    \A r \in ReqIds :
        (jwtSecret /\ reqs[r].pc \notin {"free", "auth"}) =>
            /\ (reqs[r].header.scheme # "bearer") =>
                    ( /\ AuthRefused(r, 401, "UNAUTHORIZED")
                      /\ reqs[r].resp.message = "Access token required" )
            /\ ( /\ reqs[r].header.scheme = "bearer"
                 /\ (~reqs[r].header.token.sig \/ reqs[r].header.token.exp <= clock) )
                => AuthRefused(r, 401, "INVALID_TOKEN")

\* authMiddleware has refused a request with a Basic header, one with an expired
\* token and (in another run) one with a badly signed token
C12_Witness ==
    /\ jwtSecret
    /\ \E r1, r2 \in ReqIds :
        /\ reqs[r1].header = BasicHeader
        /\ AuthRefused(r1, 401, "UNAUTHORIZED")
        /\ reqs[r2].header.scheme = "bearer"
        /\ reqs[r2].header.token.sig
        /\ reqs[r2].header.token.exp = PastExp
        /\ AuthRefused(r2, 401, "INVALID_TOKEN")

\* authMiddleware is through with request r
AuthOver(r) == reqs[r].pc \notin {"free", "auth", "authDb", "authSet"}

\* authMiddleware has sent a response for request r
AuthResponded(r) == reqs[r].pc = "done" /\ reqs[r].resp.from = "authMiddleware"

\* C28: authMiddleware has exactly one outcome for a request: either it has sent
\* one error response, 401 or 500, and next() is never called, or it has called
\* next() once with req.user set and sends no response; the outcome, once
\* there, stays.
C28_AuthSingleOutcome ==
    /\ [](\A r \in ReqIds :
            AuthOver(r) =>
                \/ /\ AuthResponded(r)
                   /\ reqs[r].resp.status \in {401, 500}
                   /\ reqs[r].resp.error # Null
                   /\ reqs[r].user = NoRec
                \/ /\ HandlerEntered(r)
                   /\ reqs[r].user # NoRec
                   /\ reqs[r].user.id = reqs[r].header.token.userId)
    /\ [][\A r \in ReqIds :
            /\ AuthResponded(r) => reqs'[r] = reqs[r]
            /\ HandlerEntered(r) => HandlerEntered(r)' /\ reqs'[r].user = reqs[r].user]_vars

\* authMiddleware has refused one request for a user that does not exist and
\* has passed another on to its handler with req.user set for u2
C28_Witness ==
    \E r1, r2 \in ReqIds :
        /\ AuthResponded(r1)
        /\ reqs[r1].resp.status = 401 /\ reqs[r1].resp.error = "USER_NOT_FOUND"
        /\ reqs[r1].user = NoRec
        /\ reqs[r2].pc = "handler"
        /\ reqs[r2].user # NoRec /\ reqs[r2].user.id = "u2"

\* the request is a join of an authenticated user that has been answered
JoinAnswered(r) ==
    /\ reqs[r].route = JoinRoute
    /\ reqs[r].pc = "done"
    /\ reqs[r].user # NoRec

\* C3: a join attempted by a user whose tokensRemaining is 0 fails with
\* NO_TOKENS_REMAINING, creates no participant row and issues no debit.
C3_JoinWithoutTokensFails ==
    \A r \in ReqIds :
        (JoinAnswered(r) /\ users[reqs[r].user.id].tokensRemaining = 0) =>
            /\ reqs[r].resp.status = 403
            /\ reqs[r].resp.error = "NO_TOKENS_REMAINING"
            /\ \A p \in participants : p.userId # reqs[r].user.id
            /\ \A t \in transactions : t.userId # reqs[r].user.id

\* C4: when two joins of different users race for the last open slot of a
\* session, exactly one succeeds and the other is answered SESSION_FULL.  (No
\* handler writes the sessions table: the slots open now are those that were
\* open when the requests arrived.)
C4_LastSlotRace ==
    \A r1, r2 \in ReqIds :
        ( /\ r1 # r2
          /\ JoinAnswered(r1) /\ JoinAnswered(r2)
          /\ reqs[r1].id = reqs[r2].id
          /\ reqs[r1].id \in DOMAIN sessions
          /\ reqs[r1].user.id # reqs[r2].user.id
          /\ sessions[reqs[r1].id].maxPlayers
                - sessions[reqs[r1].id].currentPlayers = 1 )
        => \/ reqs[r1].resp.status = 200 /\ reqs[r2].resp.error = "SESSION_FULL"
           \/ reqs[r2].resp.status = 200 /\ reqs[r1].resp.error = "SESSION_FULL"

\* C13: GET /api/user/profile answers every request that carries a good token
\* of an existing user with 200 and the user's profile together with the stats
\* computed from the database, whether a cache entry exists or not.
C13_ProfileWithStats ==
    \A r \in ReqIds :
        (reqs[r].route = ProfileRoute /\ reqs[r].pc = "done" /\ BearerTokenGood(r)) =>
            /\ reqs[r].resp.from = "handler"
            /\ reqs[r].resp.status = 200
            /\ "stats" \in DOMAIN reqs[r].resp.data
            /\ reqs[r].resp.data = UserProfileResponse(users[reqs[r].header.token.userId])

(***************************************************************************)
(* src/shared/utils/index.ts: validateEntryFee, validateSessionSize, on a   *)
(* JSON value in hundredths                                                *)
(***************************************************************************)
\* amount >= 1.00 && amount <= 100.00 && Number.isFinite(amount)
validateEntryFee(amount) ==
    amount.t = "number" /\ amount.v >= 100 /\ amount.v <= 10000

\* playerCount >= 1 && playerCount <= 8 && Number.isInteger(playerCount)
validateSessionSize(playerCount) ==
    /\ playerCount.t = "number"
    /\ playerCount.v >= 100 /\ playerCount.v <= 800
    /\ playerCount.v % 100 = 0

(***************************************************************************)
(* Specification of POST /api/sessions/create alone, with request bodies   *)
(* on both sides of every bound of createSessionSchema.                    *)
(***************************************************************************)
CreateFees == {Absent, Str, Num(99), Num(100), Num(10000), Num(10001)}
CreatePlayers == {Absent, Str, Num(0), Num(99), Num(100), Num(350), Num(800), Num(801)}

ArriveCreate(r) ==
    \E h \in {NoHeader, Bearer(GoodJwt("u1"))}, f \in CreateFees, m \in CreatePlayers :
        Arrive(r, CreateRoute, h, Null, [entryFee |-> f, maxPlayers |-> m])

InitCreate ==
    /\ SplitIdle
    /\ clock = 1
    /\ jwtSecret = TRUE
    /\ nodeEnv = "production"
    /\ users = [u \in UserIds |-> UserRow(u, DAILY_TOKEN_COUNT, 0)]
    /\ sessions = [s \in SessionIds |-> SessionRow(s, MAX_PLAYERS)]
    /\ participants = {}
    /\ transactions = {}
    /\ gameConfig = InitialConfig
    /\ boot = ServerUp
    /\ sockets = NoSockets
    /\ cache = [k \in CacheKeys |-> NoRec]
    /\ reqs = [r \in ReqIds |-> FreeReq]

NextCreate ==
    \/ \E r \in ReqIds :
        \/ ArriveCreate(r)
        \/ AuthStart(r)
        \/ AuthDbRead(r)
        \/ AuthCacheSet(r)
        \/ CreateSession(r)
    \/ \E k \in CacheKeys : CacheExpire(k)

SpecCreate == InitCreate /\ [][NextCreate]_vars

\* a value that is a number outside [lo, hi], or inside it (in hundredths)
NumberOutside(value, lo, hi) == value.t = "number" /\ (value.v < lo \/ value.v > hi)
NumberWithin(value, lo, hi) == value.t = "number" /\ value.v >= lo /\ value.v <= hi

\* the create handler has answered the request
CreateAnswered(r) ==
    /\ reqs[r].route = CreateRoute
    /\ reqs[r].pc = "done"
    /\ reqs[r].resp.from # "authMiddleware"

IsValidationFailure(resp) == resp.status = 400 /\ resp.error = "VALIDATION_ERROR"

\* a step of the handler of POST /create
CreateStep ==
    \E r \in ReqIds :
        /\ reqs[r].route = CreateRoute
        /\ reqs[r].pc = "handler"
        /\ reqs'[r].pc = "done"

\* C7: POST /api/sessions/create fails with ValidationError (HTTP 400) whenever
\* entryFee is outside [1.00, 100.00] or maxPlayers is outside [1, 8], succeeds
\* when both are within those bounds, and its handler never changes a table or
\* the cache.
C7_CreateValidatesBounds ==
    /\ [](\A r \in ReqIds :
            CreateAnswered(r) =>
                /\ NumberOutside(reqs[r].body.entryFee, MIN_ENTRY_FEE, MAX_ENTRY_FEE)
                        => IsValidationFailure(reqs[r].resp)
                /\ NumberOutside(reqs[r].body.maxPlayers, 1 * 100, MAX_PLAYERS * 100)
                        => IsValidationFailure(reqs[r].resp)
                /\ ( /\ NumberWithin(reqs[r].body.entryFee, MIN_ENTRY_FEE, MAX_ENTRY_FEE)
                     /\ NumberWithin(reqs[r].body.maxPlayers, 1 * 100, MAX_PLAYERS * 100) )
                        => reqs[r].resp.status = 200 /\ reqs[r].resp.error = Null)
    /\ [][CreateStep => UNCHANGED <<dbVars, cache>>]_vars

\* one create with a fee of 100.01 has been refused and one with both values on
\* their upper bounds has been accepted
C7_Witness ==
    \E r1, r2 \in ReqIds :
        /\ CreateAnswered(r1) /\ IsValidationFailure(reqs[r1].resp)
        /\ reqs[r1].body = [entryFee |-> Num(10001), maxPlayers |-> Num(100)]
        /\ CreateAnswered(r2) /\ reqs[r2].resp.status = 200
        /\ reqs[r2].body = [entryFee |-> Num(10000), maxPlayers |-> Num(800)]

\* C27: POST /api/sessions/create accepts a body exactly when validateEntryFee
\* accepts its entryFee and, if maxPlayers is supplied, validateSessionSize
\* accepts its maxPlayers; a maxPlayers of 3.5 is refused.
C27_CreateAgreesWithValidators ==
    \A r \in ReqIds :
        CreateAnswered(r) =>
            ( reqs[r].resp.status = 200
                <=> /\ validateEntryFee(reqs[r].body.entryFee)
                    /\ \/ reqs[r].body.maxPlayers.t = "absent"
                       \/ validateSessionSize(reqs[r].body.maxPlayers) )

(***************************************************************************)
(* UTC days: src/shared/utils/index.ts getMidnightUTC, getNextMidnightUTC  *)
(***************************************************************************)
\* date.setUTCHours(0, 0, 0, 0)
getMidnightUTC(date) == (date \div DayLen) * DayLen

getNextMidnightUTC(date) == getMidnightUTC(date) + DayLen

\* getNextTokenReset(): midnight after new Date()
getNextTokenReset == getNextMidnightUTC(clock)

Tick ==
    /\ clock < MaxClock
    /\ clock' = clock + 1
    /\ UNCHANGED <<splitVars, retryRun, jwtSecret, nodeEnv, serverVars, dbVars, cache, reqs>>

(***************************************************************************)
(* routes/user.ts: GET /tokens and POST /tokens/reset                      *)
(***************************************************************************)
TokensRoute == "GET /api/user/tokens"
ResetRoute == "POST /api/user/tokens/reset"

\* the tokenData object of the two token routes
TokenStatus(row) ==
    [ tokensRemaining |-> row.tokensRemaining,
      lastTokenReset |-> row.lastTokenReset,
      maxTokens |-> DAILY_TOKEN_COUNT,
      nextReset |-> getNextTokenReset ]

\* cache.get of the token status; a hit is sent as it is
GetTokens(r) ==
    /\ reqs[r].pc = "handler"
    /\ reqs[r].route = TokensRoute
    /\ LET tokenData == CacheGet(USER_TOKENS(reqs[r].user.id))
       IN  IF tokenData # NoRec
           THEN Respond(r, Json(tokenData))
           ELSE reqs' = [reqs EXCEPT ![r].pc = "tokensDb"]
    /\ UNCHANGED <<splitVars, retryRun, envVars, serverVars, dbVars, cache>>

GetTokensDb(r) ==
    /\ reqs[r].pc = "tokensDb"
    /\ LET user == FindUser(reqs[r].user.id)
       IN  IF user = NoRec
           THEN Respond(r, Resp(404, "USER_NOT_FOUND", "User not found", "handler"))
           ELSE reqs' = [reqs EXCEPT ![r].pc = "tokensSet",
                                     ![r].loc = TokenStatus(user)]
    /\ UNCHANGED <<splitVars, retryRun, envVars, serverVars, dbVars, cache>>

GetTokensSet(r) ==
    /\ reqs[r].pc = "tokensSet"
    /\ cache' = CacheSet(USER_TOKENS(reqs[r].user.id), reqs[r].loc)
    /\ Respond(r, Json(reqs[r].loc))
    /\ UNCHANGED <<splitVars, retryRun, envVars, serverVars, dbVars>>

\* a comparison that leaves out a reset made at midnight itself
alreadyResetToday_Strict(lastReset, lastMidnight) == lastReset > lastMidnight

\* lastReset >= lastMidnight: the tokens were already reset today
alreadyResetToday(lastReset, lastMidnight) == lastReset >= lastMidnight

\* const now = new Date(); lastMidnight is now at 00:00 UTC
ResetTokens(r) ==
    /\ reqs[r].pc = "handler"
    /\ reqs[r].route = ResetRoute
    /\ reqs' = [reqs EXCEPT ![r].pc = "resetRead",
                            ![r].loc = [ lastMidnight |-> getMidnightUTC(clock),
                                         now |-> clock ]]
    /\ UNCHANGED <<splitVars, retryRun, envVars, serverVars, dbVars, cache>>

\* prisma.user.findUnique, and the check of the row read
ResetTokensRead(r) ==
    /\ reqs[r].pc = "resetRead"
    /\ LET user == FindUser(reqs[r].user.id)
       IN  IF user = NoRec
           THEN Respond(r, Resp(404, "USER_NOT_FOUND", "User not found", "handler"))
           ELSE IF alreadyResetToday(user.lastTokenReset, reqs[r].loc.lastMidnight)
           THEN Respond(r, [ status |-> 400, error |-> "TOKENS_ALREADY_RESET",
                             message |-> "Tokens already reset today",
                             from |-> "handler",
                             data |-> [ lastReset |-> user.lastTokenReset,
                                        tokensRemaining |-> user.tokensRemaining,
                                        nextReset |-> getNextTokenReset ] ])
           ELSE reqs' = [reqs EXCEPT ![r].pc = "resetWrite"]
    /\ UNCHANGED <<splitVars, retryRun, envVars, serverVars, dbVars, cache>>

\* an update that restores the count and leaves lastTokenReset as it was
ResetTokensWrite_KeepLastReset(r) ==
    /\ reqs[r].pc = "resetWrite"
    /\ users' = [users EXCEPT ![reqs[r].user.id].tokensRemaining = DAILY_TOKEN_COUNT]
    /\ reqs' = [reqs EXCEPT ![r].pc = "resetCache",
                            ![r].loc = [ updatedUser |-> users'[reqs[r].user.id],
                                         lastMidnight |-> reqs[r].loc.lastMidnight,
                                         now |-> reqs[r].loc.now ]]
    /\ UNCHANGED <<splitVars, retryRun, envVars, serverVars, sessions, participants, transactions,
                   gameConfig, cache>>

\* prisma.user.update({ tokensRemaining: DAILY_TOKEN_COUNT, lastTokenReset: now })
ResetTokensWrite(r) ==
    /\ reqs[r].pc = "resetWrite"
    /\ users' = [users EXCEPT
            ![reqs[r].user.id].tokensRemaining = DAILY_TOKEN_COUNT,
            ![reqs[r].user.id].lastTokenReset = reqs[r].loc.now]
    /\ reqs' = [reqs EXCEPT ![r].pc = "resetCache",
                            ![r].loc = [ updatedUser |-> users'[reqs[r].user.id],
                                         lastMidnight |-> reqs[r].loc.lastMidnight,
                                         now |-> reqs[r].loc.now ]]
    /\ UNCHANGED <<splitVars, retryRun, envVars, serverVars, sessions, participants, transactions,
                   gameConfig, cache>>

\* cache.set of the new token status, then the success response
ResetTokensCache(r) ==
    /\ reqs[r].pc = "resetCache"
    /\ LET tokenData == TokenStatus(reqs[r].loc.updatedUser)
       IN  /\ cache' = CacheSet(USER_TOKENS(reqs[r].user.id), tokenData)
           /\ Respond(r, [ status |-> 200, error |-> Null,
                           message |-> "Tokens reset successfully",
                           from |-> "handler", data |-> tokenData ])
    /\ UNCHANGED <<splitVars, retryRun, envVars, serverVars, dbVars>>

(***************************************************************************)
(* src/server/middleware/auth.ts: requireTokens(requiredTokens)            *)
(***************************************************************************)
\* next() called by the middleware `from`: no response sent
Passed(from) ==
    [ status |-> 0, error |-> Null, message |-> "next()", from |-> from ]

\* tokenData.tokens < requiredTokens; a comparison with undefined is false
tokensBelow(tokenData, requiredTokens) ==
    IF "tokens" \in DOMAIN tokenData THEN tokenData.tokens < requiredTokens ELSE FALSE

\* the check of the token data found, in the cache or the database
GateEvaluate(r, tokenData) ==
    IF tokensBelow(tokenData, reqs[r].body.requiredTokens)
    THEN Respond(r, [ status |-> 403, error |-> "NO_TOKENS_REMAINING",
                      message |-> "Insufficient tokens", from |-> "requireTokens",
                      data |-> [ nextReset |-> getNextTokenReset,
                                 required |-> reqs[r].body.requiredTokens,
                                 available |-> Field(tokenData, "tokens") ] ])
    ELSE Respond(r, Passed("requireTokens"))

\* the middleware is called with a request, authenticated (req.user set) or not
ArriveGate(r, user, requiredTokens) ==
    /\ reqs[r].pc = "free"
    /\ IF r = 1 THEN TRUE ELSE reqs[r - 1].pc # "free"
    /\ reqs' = [reqs EXCEPT ![r] =
            [ id |-> Null, pc |-> "gate", route |-> "requireTokens",
              header |-> NoHeader, body |-> [requiredTokens |-> requiredTokens],
              user |-> user, loc |-> NoRec, resp |-> NoRec ]]
    /\ UNCHANGED <<splitVars, retryRun, envVars, serverVars, dbVars, cache>>

\* the check of req.user and the cache read
RequireTokens(r) ==
    /\ reqs[r].pc = "gate"
    /\ IF reqs[r].user = NoRec
       THEN Respond(r, Resp(401, "UNAUTHORIZED", "Authentication required",
                            "requireTokens"))
       ELSE LET tokenData == CacheGet(USER_TOKENS(reqs[r].user.id))
            IN  IF tokenData # NoRec
                THEN GateEvaluate(r, tokenData)
                ELSE reqs' = [reqs EXCEPT ![r].pc = "gateDb"]
    /\ UNCHANGED <<splitVars, retryRun, envVars, serverVars, dbVars, cache>>

RequireTokensDb(r) ==
    /\ reqs[r].pc = "gateDb"
    /\ LET user == FindUser(reqs[r].user.id)
       IN  IF user = NoRec
           THEN Respond(r, Resp(401, "USER_NOT_FOUND", "User not found", "requireTokens"))
           ELSE reqs' = [reqs EXCEPT
                    ![r].pc = "gateSet",
                    ![r].loc = [ tokens |-> user.tokensRemaining,
                                 lastReset |-> user.lastTokenReset ]]
    /\ UNCHANGED <<splitVars, retryRun, envVars, serverVars, dbVars, cache>>

RequireTokensSet(r) ==
    /\ reqs[r].pc = "gateSet"
    /\ cache' = CacheSet(USER_TOKENS(reqs[r].user.id), reqs[r].loc)
    /\ GateEvaluate(r, reqs[r].loc)
    /\ UNCHANGED <<splitVars, retryRun, envVars, serverVars, dbVars>>

(***************************************************************************)
(* src/server/middleware/auth.ts: requireCredits(requiredAmount)           *)
(***************************************************************************)
\* a comparison that also refuses a balance equal to the amount
creditsBelow_OrEqual(balance, requiredAmount) == balance <= requiredAmount

\* balance < requiredAmount, both whole numbers of cents
creditsBelow(balance, requiredAmount) == balance < requiredAmount

\* the middleware is called with a request, authenticated (req.user set) or not
ArriveCredits(r, user, requiredAmount) ==
    /\ reqs[r].pc = "free"
    /\ IF r = 1 THEN TRUE ELSE reqs[r - 1].pc # "free"
    /\ reqs' = [reqs EXCEPT ![r] =
            [ id |-> Null, pc |-> "credits", route |-> "requireCredits",
              header |-> NoHeader, body |-> [requiredAmount |-> requiredAmount],
              user |-> user, loc |-> NoRec, resp |-> NoRec ]]
    /\ UNCHANGED <<splitVars, retryRun, envVars, serverVars, dbVars, cache>>

\* the check of req.user, up to the await of prisma.user.findUnique
RequireCredits(r) ==
    /\ reqs[r].pc = "credits"
    /\ IF reqs[r].user = NoRec
       THEN Respond(r, Resp(401, "UNAUTHORIZED", "Authentication required",
                            "requireCredits"))
       ELSE reqs' = [reqs EXCEPT ![r].pc = "creditsDb"]
    /\ UNCHANGED <<splitVars, retryRun, envVars, serverVars, dbVars, cache>>

\* the balance read from the user's row and compared with the amount
RequireCreditsDb(r) ==
    /\ reqs[r].pc = "creditsDb"
    /\ LET user == FindUser(reqs[r].user.id)
           requiredAmount == reqs[r].body.requiredAmount
       IN  IF user = NoRec
           THEN Respond(r, Resp(401, "USER_NOT_FOUND", "User not found", "requireCredits"))
           ELSE IF creditsBelow(user.creditsBalance, requiredAmount)
           THEN Respond(r, [ status |-> 403, error |-> "INSUFFICIENT_CREDITS",
                             message |-> "Insufficient credits",
                             from |-> "requireCredits",
                             data |-> [ required |-> requiredAmount,
                                        available |-> user.creditsBalance,
                                        deficit |-> requiredAmount - user.creditsBalance ] ])
           ELSE Respond(r, Passed("requireCredits"))
    /\ UNCHANGED <<splitVars, retryRun, envVars, serverVars, dbVars, cache>>

(***************************************************************************)
(* src/server/middleware/auth.ts: optionalAuthMiddleware                   *)
(***************************************************************************)
OptionalRoute == "optionalAuthMiddleware"

\* the middleware is called with a request
ArriveOptional(r, header) ==
    /\ reqs[r].pc = "free"
    /\ IF r = 1 THEN TRUE ELSE reqs[r - 1].pc # "free"
    /\ reqs' = [reqs EXCEPT ![r] =
            [ id |-> Null, pc |-> "optional", route |-> OptionalRoute,
              header |-> header, body |-> NoBody, user |-> NoRec, loc |-> NoRec,
              resp |-> NoRec ]]
    /\ UNCHANGED <<splitVars, retryRun, envVars, serverVars, dbVars, cache>>

\* without a 'Bearer ...' header next() is called at once; otherwise
\* authMiddleware is called with req, res and a callback in the place of next
OptionalAuth(r) ==
    /\ reqs[r].pc = "optional"
    /\ IF reqs[r].header.scheme # "bearer"
       THEN Respond(r, Passed(OptionalRoute))
       ELSE reqs' = [reqs EXCEPT ![r].pc = "auth"]
    /\ UNCHANGED <<splitVars, retryRun, envVars, serverVars, dbVars, cache>>

\* the callback, called by authMiddleware in the place of next and without an
\* argument: it calls next()
OptionalCallback(r) ==
    /\ reqs[r].pc = "handler"
    /\ reqs[r].route = OptionalRoute
    /\ Respond(r, Passed(OptionalRoute))
    /\ UNCHANGED <<splitVars, retryRun, envVars, serverVars, dbVars, cache>>

(***************************************************************************)
(* Specification of the token routes and the token gate, the clock running *)
(* from the first midnight.  The row of u1 starts with any token count and  *)
(* a last reset up to that midnight, the row of u2 as reset at midnight.   *)
(***************************************************************************)
\* req.user as authMiddleware attaches it
ReqUser(u) == [id |-> u, whopUserId |-> WhopIdOf(u), username |-> u]

ArriveTokens(r) ==
    \/ \E route \in {TokensRoute, ResetRoute}, u \in UserIds :
            Arrive(r, route, Bearer(GoodJwt(u)), Null, NoBody)
    \/ \E user \in {NoRec} \cup {ReqUser(u) : u \in UserIds}, n \in 1..MaxRequired :
            ArriveGate(r, user, n)

InitTokens ==
    /\ SplitIdle
    /\ clock = DayLen
    /\ jwtSecret = TRUE
    /\ nodeEnv = "production"
    /\ \E t \in 0..DAILY_TOKEN_COUNT, last \in 0..DayLen :
         users = [u \in UserIds |->
                    IF u = "u1" THEN UserRow(u, t, last)
                    ELSE UserRow(u, DAILY_TOKEN_COUNT, DayLen)]
    /\ sessions = [s \in SessionIds |-> SessionRow(s, MAX_PLAYERS)]
    /\ participants = {}
    /\ transactions = {}
    /\ gameConfig = InitialConfig
    /\ boot = ServerUp
    /\ sockets = NoSockets
    /\ cache = [k \in CacheKeys |-> NoRec]
    /\ reqs = [r \in ReqIds |-> FreeReq]

NextTokens ==
    \/ \E r \in ReqIds :
        \/ ArriveTokens(r)
        \/ AuthStart(r)
        \/ AuthDbRead(r)
        \/ AuthCacheSet(r)
        \/ GetTokens(r)
        \/ GetTokensDb(r)
        \/ GetTokensSet(r)
        \/ ResetTokens(r)
        \/ ResetTokensRead(r)
        \/ ResetTokensWrite(r)
        \/ ResetTokensCache(r)
        \/ RequireTokens(r)
        \/ RequireTokensDb(r)
        \/ RequireTokensSet(r)
    \/ \E k \in CacheKeys : CacheExpire(k)
    \/ Tick

SpecTokens == InitTokens /\ [][NextTokens]_vars

(***************************************************************************)
(* Claims about the token routes and the token gate, under SpecTokens.     *)
(***************************************************************************)
\* the reset handler has answered the request with this message
ResetAnswered(r, message) ==
    /\ reqs[r].route = ResetRoute
    /\ reqs[r].pc = "done"
    /\ reqs[r].resp.from = "handler"
    /\ reqs[r].resp.message = message

\* request r reads the user row in this step, and the row says the user was
\* reset at or after the most recent UTC midnight
ResetReadsResetUser(r) ==
    /\ reqs[r].pc = "resetRead"
    /\ reqs'[r].pc # "resetRead"
    /\ reqs[r].user.id \in DOMAIN users
    /\ users[reqs[r].user.id].lastTokenReset >= getMidnightUTC(clock)

\* C8: a reset request that finds the user's lastTokenReset at or after the most
\* recent UTC midnight is answered TOKENS_ALREADY_RESET and leaves the user's
\* tokensRemaining and lastTokenReset as they are, however often it is repeated;
\* only a request that found an older lastTokenReset ever writes the row.
C8_ResetNoOpOnceResetToday ==
    /\ [][\A r \in ReqIds :
            ResetReadsResetUser(r) =>
                /\ reqs'[r].pc = "done"
                /\ reqs'[r].resp.error = "TOKENS_ALREADY_RESET"
                /\ users' = users]_vars
    /\ [](\A r \in ReqIds :
            ResetAnswered(r, "Tokens already reset today") =>
                /\ "updatedUser" \notin DOMAIN reqs[r].loc
                /\ reqs[r].resp.data.lastReset >= reqs[r].loc.lastMidnight)

\* u1 has been reset by one request, and the next request, on the same day, has
\* been refused and has left the row as the first wrote it
C8_Witness ==
    \E r1, r2 \in ReqIds :
        /\ ResetAnswered(r1, "Tokens reset successfully")
        /\ ResetAnswered(r2, "Tokens already reset today")
        /\ reqs[r1].user.id = "u1" /\ reqs[r2].user.id = "u1"
        /\ reqs[r2].resp.data.lastReset = reqs[r1].resp.data.lastTokenReset
        /\ users["u1"].lastTokenReset = reqs[r1].resp.data.lastTokenReset
        /\ users["u1"].tokensRemaining = DAILY_TOKEN_COUNT

\* C9: a token check made at or after the UTC midnight that follows the user's
\* last reset passes for up to DAILY_TOKEN_COUNT tokens: it is never answered
\* NO_TOKENS_REMAINING.  (The 403 names the midnight after the check.)
C9_LazyResetOnAccess ==
    \A r \in ReqIds :
        ( /\ reqs[r].route = "requireTokens"
          /\ reqs[r].pc = "done"
          /\ reqs[r].resp.error = "NO_TOKENS_REMAINING" )
        => ~ ( /\ reqs[r].body.requiredTokens <= DAILY_TOKEN_COUNT
               /\ reqs[r].resp.data.nextReset - DayLen
                    >= getNextMidnightUTC(users[reqs[r].user.id].lastTokenReset) )

\* C10: among the reset requests of one user within one UTC day at most one is
\* answered 'Tokens reset successfully'.
C10_SingleDailyReset ==
    \A r1, r2 \in ReqIds :
        ( /\ ResetAnswered(r1, "Tokens reset successfully")
          /\ ResetAnswered(r2, "Tokens reset successfully")
          /\ reqs[r1].user.id = reqs[r2].user.id
          /\ getMidnightUTC(reqs[r1].resp.data.lastTokenReset)
                = getMidnightUTC(reqs[r2].resp.data.lastTokenReset) )
        => r1 = r2

\* request r reads the user row in this step, and the row says the user was
\* last reset before the UTC midnight most recent when the request was made
ResetReadsStaleUser(r) ==
    /\ reqs[r].pc = "resetRead"
    /\ reqs'[r].pc # "resetRead"
    /\ reqs[r].user.id \in DOMAIN users
    /\ users[reqs[r].user.id].lastTokenReset < reqs[r].loc.lastMidnight

\* request r writes the user row in this step
ResetWrites(r) ==
    /\ reqs[r].pc = "resetWrite"
    /\ reqs'[r].pc # "resetWrite"

\* C22: a reset request that finds the user's lastTokenReset before the most
\* recent UTC midnight is not refused; it sets tokensRemaining to
\* DAILY_TOKEN_COUNT and lastTokenReset to a time at or after that midnight, so
\* that the row it leaves makes a reset request of the same UTC day find the
\* tokens already reset.
C22_ResetRestoresDailyCap ==
    [][\A r \in ReqIds :
        /\ ResetReadsStaleUser(r) => reqs'[r].pc = "resetWrite"
        /\ ResetWrites(r) =>
            LET row == users'[reqs[r].user.id]
            IN  /\ row.tokensRemaining = DAILY_TOKEN_COUNT
                /\ row.lastTokenReset >= reqs[r].loc.lastMidnight
                /\ row.lastTokenReset < getNextMidnightUTC(reqs[r].loc.now)
                /\ alreadyResetToday(row.lastTokenReset, getMidnightUTC(reqs[r].loc.now))]_vars

\* u1, out of tokens and last reset on the day before, has been reset by a
\* request made at midnight itself, and the request that read the row next, on
\* the same UTC day, has been refused
C22_Witness ==
    \E r1, r2 \in ReqIds :
        /\ ResetAnswered(r1, "Tokens reset successfully")
        /\ reqs[r1].user.id = "u1"
        /\ reqs[r1].loc.now = reqs[r1].loc.lastMidnight
        /\ reqs[r1].loc.updatedUser.tokensRemaining = DAILY_TOKEN_COUNT
        /\ ResetAnswered(r2, "Tokens already reset today")
        /\ reqs[r2].user.id = "u1"
        /\ reqs[r2].loc.lastMidnight = reqs[r1].loc.lastMidnight
        /\ reqs[r2].loc.now >= reqs[r1].loc.now
        /\ reqs[r2].resp.data.lastReset = reqs[r1].loc.now
        /\ reqs[r2].resp.data.tokensRemaining = DAILY_TOKEN_COUNT

\* requireTokens has called next() for request r
GatePassed(r) ==
    /\ reqs[r].route = "requireTokens"
    /\ reqs[r].pc = "done"
    /\ reqs[r].resp = Passed("requireTokens")

\* C11: requireTokens(n) lets a request through only if the tokensRemaining of
\* the user's row in the database is at least n, whatever the cache holds under
\* the user's token key.
C11_GateDecidesOnDatabase ==
    \A r \in ReqIds :
        (GatePassed(r) /\ reqs[r].user.id \in DOMAIN users)
            => users[reqs[r].user.id].tokensRemaining >= reqs[r].body.requiredTokens

(***************************************************************************)
(* Specification of the credit gate: requests of users with balances on    *)
(* both sides of the amounts required.                                     *)
(***************************************************************************)
CreditBalances == {0, 500, 999, 1000, 1001}
RequiredAmounts == {500, 1000}

InitCredits ==
    /\ SplitIdle
    /\ clock = 1
    /\ jwtSecret = TRUE
    /\ nodeEnv = "production"
    /\ \E b1 \in CreditBalances, b2 \in CreditBalances :
         users = [u \in UserIds |->
                    [UserRow(u, DAILY_TOKEN_COUNT, 0) EXCEPT
                        !.creditsBalance = IF u = "u1" THEN b1 ELSE b2]]
    /\ sessions = [s \in SessionIds |-> SessionRow(s, MAX_PLAYERS)]
    /\ participants = {}
    /\ transactions = {}
    /\ gameConfig = InitialConfig
    /\ boot = ServerUp
    /\ sockets = NoSockets
    /\ cache = [k \in CacheKeys |-> NoRec]
    /\ reqs = [r \in ReqIds |-> FreeReq]

NextCredits ==
    \E r \in ReqIds :
        \/ \E user \in {NoRec, ReqUser(UnknownUser)} \cup {ReqUser(u) : u \in UserIds},
              requiredAmount \in RequiredAmounts :
                ArriveCredits(r, user, requiredAmount)
        \/ RequireCredits(r)
        \/ RequireCreditsDb(r)

SpecCredits == InitCredits /\ [][NextCredits]_vars

\* requireCredits has finished with request r of a user whose row exists
CreditsAnswered(r) ==
    /\ reqs[r].route = "requireCredits"
    /\ reqs[r].pc = "done"
    /\ reqs[r].user # NoRec
    /\ reqs[r].user.id \in DOMAIN users

\* C21: requireCredits(required) answers 403 INSUFFICIENT_CREDITS with
\* deficit = required - available, and does not call next(), exactly when the
\* stored balance of the user is below required; when the balance is at least
\* required it calls next() and sends no response.
C21_CreditGate ==
    \A r \in ReqIds :
        CreditsAnswered(r) =>
            LET balance == users[reqs[r].user.id].creditsBalance
                required == reqs[r].body.requiredAmount
            IN  IF balance < required
                THEN /\ reqs[r].resp.status = 403
                     /\ reqs[r].resp.error = "INSUFFICIENT_CREDITS"
                     /\ reqs[r].resp.from = "requireCredits"
                     /\ reqs[r].resp.data.required = required
                     /\ reqs[r].resp.data.available = balance
                     /\ reqs[r].resp.data.deficit = required - balance
                ELSE reqs[r].resp = Passed("requireCredits")

\* a user with balance 5.00 is refused an amount of 10.00 with deficit 5.00,
\* and a user whose balance equals the amount is let through
C21_Witness ==
    \E r1, r2 \in ReqIds :
        /\ CreditsAnswered(r1) /\ CreditsAnswered(r2)
        /\ users[reqs[r1].user.id].creditsBalance = 500
        /\ reqs[r1].body.requiredAmount = 1000
        /\ reqs[r1].resp.status = 403
        /\ reqs[r1].resp.data.deficit = 500
        /\ users[reqs[r2].user.id].creditsBalance = reqs[r2].body.requiredAmount
        /\ reqs[r2].resp = Passed("requireCredits")

(***************************************************************************)
(* Specification of optionalAuthMiddleware, called with every header of     *)
(* Headers, JWT_SECRET configured or not.                                  *)
(***************************************************************************)
InitOptional ==
    /\ SplitIdle
    /\ clock = 1
    /\ jwtSecret \in BOOLEAN
    /\ nodeEnv = "production"
    /\ users = [u \in UserIds |-> UserRow(u, DAILY_TOKEN_COUNT, 0)]
    /\ sessions = [s \in SessionIds |-> SessionRow(s, MAX_PLAYERS)]
    /\ participants = {}
    /\ transactions = {}
    /\ gameConfig = InitialConfig
    /\ boot = ServerUp
    /\ sockets = NoSockets
    /\ cache = [k \in CacheKeys |-> NoRec]
    /\ reqs = [r \in ReqIds |-> FreeReq]

NextOptional ==
    \/ \E r \in ReqIds :
        \/ \E h \in Headers : ArriveOptional(r, h)
        \/ OptionalAuth(r)
        \/ AuthStart(r)
        \/ AuthDbRead(r)
        \/ AuthCacheSet(r)
        \/ OptionalCallback(r)
    \/ \E k \in CacheKeys : CacheExpire(k)

SpecOptional == InitOptional /\ [][NextOptional]_vars

\* C23: optionalAuthMiddleware never fails a request: every request it has
\* finished with has been passed on with next() and without a response, with
\* req.user set if its bearer token is good and unset if the token is absent or
\* invalid.
C23_OptionalAuthNeverFails ==
    \A r \in ReqIds :
        (reqs[r].route = OptionalRoute /\ reqs[r].pc = "done") =>
            /\ reqs[r].resp = Passed(OptionalRoute)
            /\ BearerTokenGood(r) => reqs[r].user # NoRec
            /\ ~BearerTokenGood(r) => reqs[r].user = NoRec

(***************************************************************************)
(* Specification of GET and PUT /api/user/profile behind authMiddleware:    *)
(* two users with different usernames, requests that carry a good token.    *)
(***************************************************************************)
NameOf(u) == IF u = "u1" THEN <<"a", "c", "e">> ELSE <<"b", "o", "b">>

\* usernames of PUT bodies: none, the two names held, a free name, a name too
\* short, a name with a space, and a name of 21 characters
PutUsernames ==
    { Absent, Name(NameOf("u1")), Name(NameOf("u2")), Name(<<"z", "e", "d">>),
      Name(<<"a", "b">>), Name(<<"a", " ", "b">>), Name([i \in 1..21 |-> "a"]) }

ArriveProfile(r) ==
    \E u \in UserIds :
        \/ Arrive(r, ProfileRoute, Bearer(GoodJwt(u)), Null, NoBody)
        \/ \E name \in PutUsernames :
                Arrive(r, PutProfileRoute, Bearer(GoodJwt(u)), Null, [username |-> name])

InitProfile ==
    /\ SplitIdle
    /\ clock = 1
    /\ jwtSecret = TRUE
    /\ nodeEnv = "production"
    /\ users = [u \in UserIds |->
                    [UserRow(u, DAILY_TOKEN_COUNT, 0) EXCEPT !.username = NameOf(u)]]
    /\ sessions = [s \in SessionIds |-> SessionRow(s, MAX_PLAYERS)]
    /\ participants = {}
    /\ transactions = {}
    /\ gameConfig = InitialConfig
    /\ boot = ServerUp
    /\ sockets = NoSockets
    /\ cache = [k \in CacheKeys |-> NoRec]
    /\ reqs = [r \in ReqIds |-> FreeReq]

NextProfile ==
    \/ \E r \in ReqIds :
        \/ ArriveProfile(r)
        \/ AuthStart(r)
        \/ AuthDbRead(r)
        \/ AuthCacheSet(r)
        \/ GetProfile(r)
        \/ GetProfileDb(r)
        \/ GetProfileSet(r)
        \/ PutProfile(r)
        \/ PutProfileFind(r)
        \/ PutProfileUpdate(r)
        \/ PutProfileDel(r)
    \/ \E k \in CacheKeys : CacheExpire(k)

SpecProfile == InitProfile /\ [][NextProfile]_vars

\* C24: a request with an unexpired, correctly signed token of an existing user
\* whose whopUserId matches is never refused by authMiddleware, whatever GET and
\* PUT /api/user/profile requests of that user have put into the cache or
\* deleted from it.
C24_GoodTokenAlwaysAccepted ==
    \A r \in ReqIds :
        (BearerTokenGood(r) /\ reqs[r].pc = "done")
            => reqs[r].resp.from # "authMiddleware"

\* C25: no two users hold the same username, and a PUT /api/user/profile that
\* names a username another user holds is answered 409 USERNAME_TAKEN.
C25_UsernamesStayDistinct ==
    \A u, v \in UserIds : (u # v) => users[u].username # users[v].username

(***************************************************************************)
(* Specification of the error path: a route handler wrapped in asyncHandler *)
(* rejects with an error, which Express hands to errorHandler.             *)
(***************************************************************************)
\* the failures of join, by the names of ERROR_CODES
JoinFailureCodes ==
    { "SESSION_NOT_FOUND", "SESSION_FULL", "SESSION_ALREADY_STARTED",
      "ALREADY_IN_SESSION", "NO_TOKENS_REMAINING", "INSUFFICIENT_CREDITS" }

\* messages of errors no branch of errorHandler expects
UnexpectedMessages == { "connect ECONNREFUSED 10.0.0.5:6379", "x is not a function" }

Stacks == { "at join (session.ts:30)", "at RedisClient.connect (redis.ts:20)" }

\* an error of a library class: ZodError, the Prisma errors, the errors of jwt
LibraryError(class, name, code, message) ==
    [ message |-> message, name |-> name, code |-> code,
      statusCode |-> 0, class |-> class, stack |-> "at library" ]

ThrownErrors ==
    { PlainError(m, st) : m \in JoinFailureCodes \cup UnexpectedMessages, st \in Stacks }
    \cup { PlainError("USER_NOT_FOUND", "at library"),
           PlainError("PAYMENT_FAILED", "at library"),
           ValidationError("Invalid session data"),
           AppError("AppError", "SESSION_ALREADY_STARTED", "Session already started", 409),
           LibraryError("ZodError", "ZodError", Null, "Required"),
           LibraryError("PrismaClientValidationError", "PrismaClientValidationError",
                        Null, "Invalid value"),
           LibraryError("Error", "JsonWebTokenError", Null, "jwt malformed"),
           LibraryError("Error", "TokenExpiredError", Null, "jwt expired") }
    \cup { LibraryError("PrismaClientKnownRequestError", "PrismaClientKnownRequestError",
                        c, "Database failure") :
             c \in {"P2002", "P2014", "P2003", "P2025", "P2021", "P2022", "P1008",
                    "P1001", "P2034"} }

NodeEnvs == { "production", "development", "test" }

\* asyncHandler: the handler's promise rejects and catch(next) passes the error on
asyncHandlerCatch(r, route, error) ==
    /\ reqs[r].pc = "free"
    /\ IF r = 1 THEN TRUE ELSE reqs[r - 1].pc # "free"
    /\ reqs' = [reqs EXCEPT ![r] =
            [ id |-> Null, pc |-> "thrown", route |-> route, header |-> NoHeader,
              body |-> NoBody, user |-> NoRec, loc |-> error, resp |-> NoRec ]]
    /\ UNCHANGED <<splitVars, retryRun, envVars, serverVars, dbVars, cache>>

\* app.use(errorHandler): the one response of errorHandler to the error
ErrorMiddleware(r) ==
    /\ reqs[r].pc = "thrown"
    /\ Respond(r, errorHandler(reqs[r].loc))
    /\ UNCHANGED <<splitVars, retryRun, envVars, serverVars, dbVars, cache>>

InitErrors ==
    /\ SplitIdle
    /\ clock = 1
    /\ jwtSecret = TRUE
    /\ nodeEnv \in NodeEnvs
    /\ users = [u \in UserIds |-> UserRow(u, DAILY_TOKEN_COUNT, 0)]
    /\ sessions = [s \in SessionIds |-> SessionRow(s, MAX_PLAYERS)]
    /\ participants = {}
    /\ transactions = {}
    /\ gameConfig = InitialConfig
    /\ boot = ServerUp
    /\ sockets = NoSockets
    /\ cache = [k \in CacheKeys |-> NoRec]
    /\ reqs = [r \in ReqIds |-> FreeReq]

NextErrors ==
    \E r \in ReqIds :
        \/ \E e \in ThrownErrors : asyncHandlerCatch(r, JoinRoute, e)
        \/ ErrorMiddleware(r)

SpecErrors == InitErrors /\ [][NextErrors]_vars

\* errorHandler has answered the error thrown for request r
ErrorAnswered(r) ==
    /\ reqs[r].pc = "done"
    /\ reqs[r].resp.from = "errorHandler"

\* the request's handler threw new Error(message)
ThrewPlain(r, message) ==
    /\ reqs[r].pc \in {"thrown", "done"}
    /\ reqs[r].loc.class = "Error" /\ reqs[r].loc.name = "Error"
    /\ reqs[r].loc.message = message

\* C14: once errorHandler has handled an Error whose message is
\* INSUFFICIENT_CREDITS or NO_TOKENS_REMAINING the request has the one response
\* 403 with that code, and for SESSION_FULL or ALREADY_IN_SESSION the one response
\* 409 with that code.
C14_JoinFailureStatuses ==
    \A r \in ReqIds :
        ErrorAnswered(r) =>
            /\ \A m \in {"INSUFFICIENT_CREDITS", "NO_TOKENS_REMAINING"} :
                    ThrewPlain(r, m) => reqs[r].resp.status = 403 /\ reqs[r].resp.error = m
            /\ \A m \in {"SESSION_FULL", "ALREADY_IN_SESSION"} :
                    ThrewPlain(r, m) => reqs[r].resp.status = 409 /\ reqs[r].resp.error = m

\* a NO_TOKENS_REMAINING error and a SESSION_FULL error have both been answered
C14_Witness ==
    \E r1, r2 \in ReqIds :
        /\ ErrorAnswered(r1) /\ ThrewPlain(r1, "NO_TOKENS_REMAINING")
        /\ reqs[r1].resp.status = 403
        /\ ErrorAnswered(r2) /\ ThrewPlain(r2, "SESSION_FULL")
        /\ reqs[r2].resp.status = 409

\* C15: an Error whose message names a join failure is answered with that name
\* as the error code and a 4xx status, never INTERNAL_ERROR or 500.
C15_JoinFailuresHaveOwnCode ==
    \A r \in ReqIds :
        \A m \in JoinFailureCodes :
            (ErrorAnswered(r) /\ ThrewPlain(r, m)) =>
                /\ reqs[r].resp.error = m
                /\ reqs[r].resp.status \in 400..499

\* an error that no branch of errorHandler expects
Unexpected(error) ==
    /\ error.class = "Error" /\ error.name = "Error"
    /\ error.message \in UnexpectedMessages

\* C16: the responses to two unexpected errors are the same, whatever the
\* messages and stacks of the errors are, and carry the code INTERNAL_ERROR.
C16_UnexpectedErrorsLookAlike ==
    \A r1, r2 \in ReqIds :
        ( /\ ErrorAnswered(r1) /\ Unexpected(reqs[r1].loc)
          /\ ErrorAnswered(r2) /\ Unexpected(reqs[r2].loc) )
        => /\ reqs[r1].resp = reqs[r2].resp
           /\ reqs[r1].resp.error = "INTERNAL_ERROR"

\* C16 as the code has it: the response to an unexpected error is 500
\* INTERNAL_ERROR; with NODE_ENV 'production' it carries the generic message and
\* no stack, so that two such responses are the same; with any other NODE_ENV it
\* carries the error's own message, and with 'development' the stack as well.
C16_GenericInProduction ==
    \A r1, r2 \in ReqIds :
        ( /\ ErrorAnswered(r1) /\ Unexpected(reqs[r1].loc)
          /\ ErrorAnswered(r2) /\ Unexpected(reqs[r2].loc) )
        => /\ reqs[r1].resp.status = 500
           /\ reqs[r1].resp.error = "INTERNAL_ERROR"
           /\ (nodeEnv = "production") =>
                    /\ reqs[r1].resp = reqs[r2].resp
                    /\ reqs[r1].resp.message = "Internal server error"
           /\ (nodeEnv # "production") =>
                    reqs[r1].resp.message = reqs[r1].loc.message
           /\ reqs[r1].resp.stack =
                    IF nodeEnv = "development" THEN reqs[r1].loc.stack ELSE Null

\* in production two unexpected errors with different messages and stacks have
\* been answered
C16_Witness ==
    /\ nodeEnv = "production"
    /\ \E r1, r2 \in ReqIds :
        /\ ErrorAnswered(r1) /\ Unexpected(reqs[r1].loc)
        /\ ErrorAnswered(r2) /\ Unexpected(reqs[r2].loc)
        /\ reqs[r1].loc.message # reqs[r2].loc.message
        /\ reqs[r1].loc.stack # reqs[r2].loc.stack
        /\ reqs[r1].resp = reqs[r2].resp

(***************************************************************************)
(* Specification of the persisted configuration: the server starts on a    *)
(* database whose game_config table holds any of StoredTables, restarts,   *)
(* and serves POST /api/sessions/create while it is up.                    *)
(***************************************************************************)
\* the table replaced in one row's value
WithValue(rows, key, value) ==
    {IF row.key = key THEN ConfigRow(key, value, row.category) ELSE row : row \in rows}

\* tables the server can find: empty, seeded, seeded and tuned by an operator,
\* seeded with a row deleted, and a table holding only a row of another key
StoredTables ==
    { {}, InitialConfig,
      WithValue(InitialConfig, "MAX_ENTRY_FEE", "50.00"),
      {row \in InitialConfig : row.key # "DAILY_TOKEN_COUNT"},
      {ConfigRow("MAINTENANCE_MODE", "off", "ops")} }

ConfigFees == {Num(100), Num(5000), Num(5001), Num(10000), Num(10001)}

\* server.listen: requests are served while the server is up
ArriveConfig(r) ==
    /\ boot.pc = "up"
    /\ \E f \in ConfigFees :
            Arrive(r, CreateRoute, Bearer(GoodJwt("u1")), Null,
                   [entryFee |-> f, maxPlayers |-> Absent])

InitConfig ==
    /\ SplitIdle
    /\ clock = 1
    /\ jwtSecret = TRUE
    /\ nodeEnv = "production"
    /\ users = [u \in UserIds |-> UserRow(u, DAILY_TOKEN_COUNT, 0)]
    /\ sessions = [s \in SessionIds |-> SessionRow(s, MAX_PLAYERS)]
    /\ participants = {}
    /\ transactions = {}
    /\ gameConfig \in StoredTables
    /\ boot = ServerDown
    /\ sockets = NoSockets
    /\ cache = [k \in CacheKeys |-> NoRec]
    /\ reqs = [r \in ReqIds |-> FreeReq]

NextConfig ==
    \/ StartServer
    \/ SetupInitialConfigRead
    \/ SetupInitialConfigCreate
    \/ Shutdown
    \/ \E r \in ReqIds :
        \/ ArriveConfig(r)
        \/ AuthStart(r)
        \/ AuthDbRead(r)
        \/ AuthCacheSet(r)
        \/ CreateSession(r)

SpecConfig == InitConfig /\ [][NextConfig]_vars

\* the row stored under a key, and a stored amount in cents
StoredRows(key) == {row \in gameConfig : row.key = key}
StoredCents(key) ==
    LET value == (CHOOSE row \in StoredRows(key) : TRUE).value
    IN  IF value = "1.00" THEN 100
        ELSE IF value = "50.00" THEN 5000
        ELSE IF value = "100.00" THEN 10000
        ELSE 0

\* C17: a create request is accepted exactly if its entry fee lies within the
\* MIN_ENTRY_FEE and MAX_ENTRY_FEE stored in the configuration table.
C17_CreateUsesStoredBounds ==
    \A r \in ReqIds :
        ( /\ CreateAnswered(r)
          /\ StoredRows("MIN_ENTRY_FEE") # {} /\ StoredRows("MAX_ENTRY_FEE") # {} )
        => ( reqs[r].resp.status = 200
               <=> /\ StoredCents("MIN_ENTRY_FEE") <= reqs[r].body.entryFee.v
                   /\ reqs[r].body.entryFee.v <= StoredCents("MAX_ENTRY_FEE") )

\* C18: once initializeDatabase has completed and the server listens, the table
\* holds MIN_ENTRY_FEE, MAX_ENTRY_FEE and DAILY_TOKEN_COUNT exactly once each, and
\* MIN_ENTRY_FEE with value '1.00' and category 'payment'.
C18_ConfigSeeded ==
    (boot.pc = "up") =>
        /\ \A key \in {"MIN_ENTRY_FEE", "MAX_ENTRY_FEE", "DAILY_TOKEN_COUNT"} :
                Cardinality(StoredRows(key)) = 1
        /\ StoredRows("MIN_ENTRY_FEE") = {ConfigRow("MIN_ENTRY_FEE", "1.00", "payment")}

(***************************************************************************)
(* Specification of the socket.io connections of a running server.         *)
(***************************************************************************)
Directions == {"left", "right"}

InitSockets ==
    /\ SplitIdle
    /\ clock = 1
    /\ jwtSecret = TRUE
    /\ nodeEnv = "production"
    /\ users = [u \in UserIds |-> UserRow(u, DAILY_TOKEN_COUNT, 0)]
    /\ sessions = [s \in SessionIds |-> SessionRow(s, MAX_PLAYERS)]
    /\ participants = {}
    /\ transactions = {}
    /\ gameConfig = InitialConfig
    /\ boot = ServerUp
    /\ sockets = NoSockets
    /\ cache = [k \in CacheKeys |-> NoRec]
    /\ reqs = [r \in ReqIds |-> FreeReq]

NextSockets ==
    \E k \in SocketIds :
        \/ Connection(k)
        \/ \E s \in SessionIds \cup {UnknownSession} : JoinGame(k, s)
        \/ \E d \in Directions : PlayerMove(k, d)
        \/ \E a \in BOOLEAN : PlayerAccelerate(k, a)
        \/ LeaveGame(k)
        \/ Disconnect(k)

SpecSockets == InitSockets /\ [][NextSockets]_vars

\* the events the server has emitted to socket k that are errors
ErrorEvents(k) ==
    {i \in DOMAIN sockets[k].sent : sockets[k].sent[i].event = "error"}

\* socket k has sent a player_move or player_accelerate
SentInput(k) ==
    \E i \in DOMAIN sockets[k].log :
        sockets[k].log[i].event \in {"player_move", "player_accelerate"}

\* C20: a player_move or player_accelerate from a connection that is not a
\* participant of an ACTIVE session (no session is ACTIVE, no connection is tied
\* to a participant) is rejected: the sender has been sent an error event, and
\* no session has been ended or otherwise changed.
C20_InputOutsideActiveSessionRejected ==
    \A k \in SocketIds :
        SentInput(k) =>
            /\ ErrorEvents(k) # {}
            /\ \A s \in SessionIds : sessions[s] = SessionRow(s, MAX_PLAYERS)

\* the last event socket k sent is leave_game
LeftLast(k) ==
    /\ sockets[k].log # <<>>
    /\ sockets[k].log[Len(sockets[k].log)].event = "leave_game"

\* C29: a connection whose last event is leave_game is in no session room, and
\* a connection is at no time in more than one session room.
C29_LeaveGameLeavesRoom ==
    \A k \in SocketIds :
        /\ LeftLast(k) => sockets[k].rooms = {}
        /\ Cardinality(sockets[k].rooms) <= 1

(***************************************************************************)
(* Specification of one call of retry, with 0 to MaxAttempts attempts.      *)
(***************************************************************************)
InitRetry ==
    /\ SplitIdle
    /\ HttpIdle

NextRetry ==
    \/ \E attempts \in 0..MaxAttempts, delay \in Delays : RetryCall(attempts, delay)
    \/ RetryInvoke
    \/ \E value \in FnValues : RetryFnResolves(value)
    \/ \E error \in FnErrors : RetryFnRejects(error)
    \/ RetrySleepDone
    \/ RetryThrow

SpecRetry == InitRetry /\ [][NextRetry]_vars

\* the invocations of fn that have failed
Failures == {k \in 1..Len(retryRun.outcomes) : ~retryRun.outcomes[k].ok}

\* C30: retry(fn, attempts, delay) with attempts >= 1 invokes fn at most attempts
\* times and one invocation at a time; it resolves with the result of the first
\* invocation that succeeds, which is the last it makes; once attempts
\* invocations have failed it rejects with the error of the last; it waits
\* delay * k after the k-th failure, and not after the last of attempts.
C30_Retry ==
    (retryRun.attempts >= 1) =>
        LET n == Len(retryRun.outcomes)
        IN  /\ n + retryRun.running <= retryRun.attempts
            /\ retryRun.running <= 1
            /\ \A k \in 1..n : retryRun.outcomes[k].ok => k = n
            /\ (retryRun.pc = "resolved") <=> (n >= 1 /\ retryRun.outcomes[n].ok)
            /\ (retryRun.pc = "resolved") =>
                    /\ retryRun.result = retryRun.outcomes[n].v
                    /\ retryRun.running = 0
            /\ (retryRun.pc = "rejected") =>
                    /\ n = retryRun.attempts
                    /\ Failures = 1..n
                    /\ retryRun.result = retryRun.outcomes[n].v
                    /\ retryRun.running = 0
            /\ Cardinality(Failures) = retryRun.attempts => retryRun.pc \in {"loop", "rejected"}
            /\ Len(retryRun.waits) = IF Cardinality(Failures) < retryRun.attempts
                                     THEN Cardinality(Failures)
                                     ELSE retryRun.attempts - 1
            /\ \A k \in 1..Len(retryRun.waits) : retryRun.waits[k] = retryRun.delay * k

\* a call with three attempts has been rejected with the error of the third
\* failure, which is not that of the first, after waits of delay and 2 * delay
C30_Witness ==
    /\ retryRun.pc = "rejected"
    /\ retryRun.attempts = 3
    /\ retryRun.outcomes[1].v = "e1"
    /\ retryRun.outcomes[3].v = "e2"
    /\ retryRun.result = "e2"
    /\ retryRun.waits = <<retryRun.delay, 2 * retryRun.delay>>

(***************************************************************************)
(* Specification of calls of calculatePaymentSplit.                        *)
(***************************************************************************)
SplitInit ==
    /\ splitIn \in 1..MaxTotalCents
    /\ splitOut = NoRec
    /\ retryRun = RetryIdle
    /\ HttpIdle

SplitCall ==
    /\ splitOut = NoRec
    /\ splitOut' = calculatePaymentSplit(splitIn)
    /\ UNCHANGED <<splitIn, retryRun, httpVars>>

SplitNext == SplitCall

SpecSplit == SplitInit /\ [][SplitNext]_vars

\* C1: for every total of a whole number of cents between 1.00 and 100.00 the
\* developer, creator and winner shares sum exactly to the total.
C1_SplitSumsToTotal ==
    (splitOut # NoRec /\ splitIn \in MIN_ENTRY_FEE..MAX_ENTRY_FEE)
        => splitOut.developer + splitOut.creator + splitOut.winner = splitIn

\* C19: for a total of a whole number of cents the developer and creator shares
\* are each a quarter of the total rounded to the nearest cent, a half cent
\* rounded up, and the winner share is half of the total rounded likewise.
C19_SharesRoundedHalfUp ==
    (splitOut # NoRec) =>
        /\ splitOut.developer = (splitIn + 2) \div 4
        /\ splitOut.creator = (splitIn + 2) \div 4
        /\ splitOut.winner = (splitIn + 1) \div 2

\* C26: for a total of a whole number of cents the three shares sum to the total
\* or to one cent more, never to less.
C26_SharesSumWithinOneCent ==
    (splitOut # NoRec) =>
        LET sum == splitOut.developer + splitOut.creator + splitOut.winner
        IN  sum >= splitIn /\ sum <= splitIn + 1

====
